---- MODULE Spec2Model ----
(***************************************************************************)
(* A model of the cali calendar library: event validation, the generation  *)
(* of repeating events, the in-memory data store and the Calendar facade   *)
(* with its repeat-edit cascade.                                           *)
(*                                                                         *)
(* Representation of Go values:                                            *)
(*   time.Time        seconds since 1970-01-01 00:00 UTC (an integer)      *)
(*   "YYYY-MM-DD"     the tuple <<y, m, d>>; string order is tuple order   *)
(*   "HH:MM"          the tuple <<h, mi>>; the empty string is <<>>        *)
(*   *T (a pointer)   <<>> for nil, <<v>> for a pointer to v               *)
(*   error            a string naming the error variable, "nil" for nil    *)
(***************************************************************************)
EXTENDS Integers, Sequences, FiniteSets, TLC

VARIABLES events, invites, curId, last, nCreates, nEdits, tmpl, genOut, pc, arg, ret,
          procs, writes

vars ==
    <<events, invites, curId, last, nCreates, nEdits, tmpl, genOut, pc, arg, ret, procs, writes>>

storeVars == <<events, invites, curId, last, nCreates, nEdits>>

genVars == <<tmpl, genOut, pc>>

fnVars == <<arg, ret, procs, writes>>

(***************************************************************************)
(* Program constants                                                       *)
(***************************************************************************)
StatusActive == 0

StatusCanceled == 1

StatusAbandoned == -2

StatusRemoved == -1

InviteStatusPending == 0

InviteStatusConfirmed == 1

InviteStatusDeclined == -1

InviteStatusRevoked == -2

PermissionRead == 1

PermissionModify == 2

PermissionInvite == 4

PermissionCancel == 8

PermissionDelete == 16

PermissionOwner == 31

PermissionInvitee == 1

MaxRepeatOccurrence == 30

\* MaxRepeatDuration, 24*365*2 hours, in seconds
MaxRepeatDuration == 24 * 365 * 2 * 3600

RepeatTypeDaily == 0

RepeatTypeWeekly == 1

RepeatTypeMonthly == 2

RepeatTypeYearly == 3

RepeatEditTypeThis == 0

RepeatEditTypeAll == 1

RepeatEditTypeThisAndAfter == 2

DayOfWeekSunday == 1

DayOfWeekMonday == 2

DayOfWeekTuesday == 4

DayOfWeekWednesday == 8

DayOfWeekThursday == 16

DayOfWeekFriday == 32

DayOfWeekSaturday == 64

\* the number of values of time.Weekday
DaysPerWeek == 7

SecondsPerDay == 86400

NoErr == "nil"

(***************************************************************************)
(* Bitmask                                                                 *)
(***************************************************************************)
RECURSIVE BitAnd(_, _)
BitAnd(a, b) ==
    IF a = 0 \/ b = 0 THEN 0
    ELSE (IF a % 2 = 1 /\ b % 2 = 1 THEN 1 ELSE 0) + 2 * BitAnd(a \div 2, b \div 2)

HasFlag(f, flag) == BitAnd(f, flag) # 0

dayOfWeekFromWeekday(w) ==
    CASE w = 0 -> DayOfWeekSunday
      [] w = 1 -> DayOfWeekMonday
      [] w = 2 -> DayOfWeekTuesday
      [] w = 3 -> DayOfWeekWednesday
      [] w = 4 -> DayOfWeekThursday
      [] w = 5 -> DayOfWeekFriday
      [] w = 6 -> DayOfWeekSaturday
      [] OTHER -> DayOfWeekSunday

(***************************************************************************)
(* Calendar arithmetic of package time (proleptic Gregorian calendar)      *)
(***************************************************************************)
IsLeap(y) == (y % 4 = 0 /\ y % 100 # 0) \/ y % 400 = 0

DaysIn(y, m) ==
    CASE m \in {1, 3, 5, 7, 8, 10, 12} -> 31
      [] m \in {4, 6, 9, 11} -> 30
      [] OTHER -> IF IsLeap(y) THEN 29 ELSE 28

\* days from 1970-01-01 to the civil date y-m-d, 1 <= m <= 12, any d
DaysFromCivil(y, m, d) ==
    LET yy  == IF m <= 2 THEN y - 1 ELSE y
        era == yy \div 400
        yoe == yy - era * 400
        mp  == IF m > 2 THEN m - 3 ELSE m + 9
        doy == (153 * mp + 2) \div 5 + d - 1
        doe == yoe * 365 + yoe \div 4 - yoe \div 100 + doy
    IN  era * 146097 + doe - 719468

\* the civil date <<y, m, d>> of a day number
CivilFromDays(z) ==
    LET zz  == z + 719468
        era == zz \div 146097
        doe == zz - era * 146097
        yoe == (doe - doe \div 1460 + doe \div 36524 - doe \div 146096) \div 365
        doy == doe - (365 * yoe + yoe \div 4 - yoe \div 100)
        mp  == (5 * doy + 2) \div 153
        d   == doy - (153 * mp + 2) \div 5 + 1
        m   == IF mp < 10 THEN mp + 3 ELSE mp - 9
        y   == yoe + era * 400 + (IF m <= 2 THEN 1 ELSE 0)
    IN  <<y, m, d>>

\* time.Date(y, m, d, 0, 0, ...): month and day overflow are normalized
DateOf(y, m, d) ==
    LET yn == y + (m - 1) \div 12
        mn == ((m - 1) % 12) + 1
    IN  DaysFromCivil(yn, mn, d) * SecondsPerDay

\* t.AddDate(years, months, days)
AddDate(t, years, months, days) ==
    LET c == CivilFromDays(t \div SecondsPerDay)
    IN  DateOf(c[1] + years, c[2] + months, c[3] + days) + (t % SecondsPerDay)

\* t.Weekday(), Sunday = 0
Weekday(t) == ((t \div SecondsPerDay) + 4) % DaysPerWeek

\* t.Format(time.DateOnly)
FormatDay(t) == CivilFromDays(t \div SecondsPerDay)

\* t.Format(TimeFormat)
FormatTime(t) == <<(t % SecondsPerDay) \div 3600, (t % 3600) \div 60>>

\* time.Parse(time.DateOnly, s) succeeds
DayParses(s) ==
    /\ Len(s) = 3
    /\ s[2] \in 1..12
    /\ s[3] >= 1
    /\ s[3] <= DaysIn(s[1], s[2])

\* time.Parse(time.DateOnly, s), for a string that parses
ParseDay(s) == DaysFromCivil(s[1], s[2], s[3]) * SecondsPerDay

\* time.Parse(TimeFormat, s) succeeds
TimeParses(s) ==
    /\ Len(s) = 2
    /\ s[1] \in 0..23
    /\ s[2] \in 0..59

\* the order of Go strings, on day strings and on time strings
RECURSIVE StrLess(_, _)
StrLess(a, b) ==
    IF Len(b) = 0 THEN FALSE
    ELSE IF Len(a) = 0 THEN TRUE
    ELSE IF a[1] # b[1] THEN a[1] < b[1]
    ELSE StrLess(Tail(a), Tail(b))

\* parseDayTime(day, hourMin), for strings that parse
parseDayTime(day, hourMin) ==
    IF hourMin = <<>> THEN ParseDay(day)
    ELSE ParseDay(day) + hourMin[1] * 3600 + hourMin[2] * 60

\* time.LoadLocation(zone) succeeds
KnownZones == {"", "UTC", "America/Denver"}

ZoneLoads(zone) == zone \in KnownZones

(***************************************************************************)
(* Validation                                                              *)
(***************************************************************************)
\* ValidTimes: dates parse, times parse unless all-day, start <= end, zone
ValidTimes(startDay, startTime, endDay, endTime, zone, isAllDay) ==
    IF ~DayParses(startDay) THEN "ErrorInvalidStartDay"
    ELSE IF ~DayParses(endDay) THEN "ErrorInvalidEndDay"
    ELSE IF ~isAllDay /\ ~TimeParses(startTime) THEN "ErrorInvalidStartTime"
    ELSE IF ~isAllDay /\ ~TimeParses(endTime) THEN "ErrorInvalidEndTime"
    ELSE IF StrLess(endDay, startDay) THEN "ErrorStartDayIsAfterEndDay"
    ELSE IF startDay = endDay /\ StrLess(endTime, startTime)
         THEN "ErrorStartTimeIsAfterEndTime"
    ELSE IF ~ZoneLoads(zone) THEN "ErrorInvalidZone"
    ELSE NoErr

ValidStatus(s) ==
    s \in {StatusActive, StatusCanceled, StatusAbandoned, StatusRemoved}

\* a variant of StopDateError whose limit is MaxRepeatDuration past the start
StopDateErrorWithoutDay(stop, startDay) ==
    IF stop < startDay THEN "ErrorRepeatStopDateIsBeforeStart"
    ELSE IF stop > startDay + MaxRepeatDuration THEN "ErrorRepeatStopDateTooLarge"
    ELSE NoErr

\* the stop-date bounds of ValidRepeat
StopDateError(stop, startDay) ==
    IF stop < startDay THEN "ErrorRepeatStopDateIsBeforeStart"
    ELSE IF stop > startDay + 24 * 3600 + MaxRepeatDuration
         THEN "ErrorRepeatStopDateTooLarge"
    ELSE NoErr

\* the repeat-type switch of ValidRepeat
RepeatTypeError(r) ==
    CASE r.RepeatType = RepeatTypeDaily -> NoErr
      [] r.RepeatType = RepeatTypeWeekly ->
            IF r.DayOfWeek <= 0 THEN "ErrorInvalidDayOfWeek" ELSE NoErr
      [] r.RepeatType = RepeatTypeMonthly -> NoErr
      [] r.RepeatType = RepeatTypeYearly -> NoErr
      [] OTHER -> "ErrorInvalidRepeatType"

ValidRepeat(e) ==
    IF ~e.IsRepeating THEN NoErr
    ELSE IF ~DayParses(e.StartDay) THEN "ErrorInvalidStartDay"
    ELSE IF e.Repeat = <<>> THEN "ErrorMissingRepeatPattern"
    ELSE LET r == e.Repeat[1]
             startDay == ParseDay(e.StartDay)
         IN  IF r.RepeatOccurrences > MaxRepeatOccurrence
                THEN "ErrorRepeatOccurrenceTooLarge"
             ELSE IF r.RepeatOccurrences = 1 \/ r.RepeatOccurrences < 0
                THEN "ErrorRepeatOccurrenceTooSmall"
             ELSE IF r.RepeatStopDate = <<>> /\ r.RepeatOccurrences = 0
                THEN "ErrorMissingEndOfRepeat"
             ELSE IF r.RepeatStopDate # <<>>
                     /\ StopDateError(r.RepeatStopDate[1], startDay) # NoErr
                THEN StopDateError(r.RepeatStopDate[1], startDay)
             ELSE RepeatTypeError(r)

Validate(e) ==
    LET t == ValidTimes(e.StartDay, e.StartTime, e.EndDay, e.EndTime, e.Zone, e.IsAllDay)
    IN  IF t # NoErr THEN t
        ELSE IF ValidRepeat(e) # NoErr THEN ValidRepeat(e)
        ELSE IF ~ValidStatus(e.Status) THEN "ErrorInvalidStatus"
        ELSE NoErr

\* a variant of ValidateInvite without its last check, Delete without Cancel
ValidateInviteDeleteUnchecked(a) ==
    IF a.Status \notin {InviteStatusPending, InviteStatusConfirmed, InviteStatusDeclined}
        THEN "ErrorInvalidInviteStatus"
    ELSE IF a.Permission <= 0 THEN "ErrorMissingInvitePermission"
    ELSE IF ~HasFlag(a.Permission, PermissionRead)
            /\ (\/ HasFlag(a.Permission, PermissionDelete)
                \/ HasFlag(a.Permission, PermissionCancel)
                \/ HasFlag(a.Permission, PermissionInvite)
                \/ HasFlag(a.Permission, PermissionModify))
        THEN "ErrorIncompatibleInvitePermission"
    ELSE IF ~HasFlag(a.Permission, PermissionInvite) /\ HasFlag(a.Permission, PermissionModify)
        THEN "ErrorIncompatibleInvitePermission"
    ELSE IF ~HasFlag(a.Permission, PermissionModify)
            /\ (HasFlag(a.Permission, PermissionDelete) \/ HasFlag(a.Permission, PermissionCancel))
        THEN "ErrorIncompatibleInvitePermission"
    ELSE NoErr

ValidateInvite(a) ==
    IF a.Status \notin {InviteStatusPending, InviteStatusConfirmed, InviteStatusDeclined}
        THEN "ErrorInvalidInviteStatus"
    ELSE IF a.Permission <= 0 THEN "ErrorMissingInvitePermission"
    ELSE IF ~HasFlag(a.Permission, PermissionRead)
            /\ (\/ HasFlag(a.Permission, PermissionDelete)
                \/ HasFlag(a.Permission, PermissionCancel)
                \/ HasFlag(a.Permission, PermissionInvite)
                \/ HasFlag(a.Permission, PermissionModify))
        THEN "ErrorIncompatibleInvitePermission"
    ELSE IF ~HasFlag(a.Permission, PermissionInvite) /\ HasFlag(a.Permission, PermissionModify)
        THEN "ErrorIncompatibleInvitePermission"
    ELSE IF ~HasFlag(a.Permission, PermissionModify)
            /\ (HasFlag(a.Permission, PermissionDelete) \/ HasFlag(a.Permission, PermissionCancel))
        THEN "ErrorIncompatibleInvitePermission"
    ELSE IF ~HasFlag(a.Permission, PermissionCancel) /\ HasFlag(a.Permission, PermissionDelete)
        THEN "ErrorIncompatibleInvitePermission"
    ELSE NoErr

\* ValidateTimeValues(startTime, endTime)
ValidateTimeValues(startTime, endTime) ==
    IF ~TimeParses(startTime) THEN "ErrorInvalidStartTime"
    ELSE IF ~TimeParses(endTime) THEN "ErrorInvalidEndTime"
    ELSE IF StrLess(endTime, startTime) THEN "ErrorStartTimeIsAfterEndTime"
    ELSE NoErr

(***************************************************************************)
(* Values                                                                  *)
(***************************************************************************)
\* Event{}
ZeroEvent ==
    [Id |-> 0, SourceId |-> <<>>, ParentId |-> <<>>, OwnerId |-> 0, EventType |-> 0,
     Title |-> "", Description |-> <<>>, Url |-> <<>>, Status |-> StatusActive,
     IsAllDay |-> FALSE, IsRepeating |-> FALSE, Repeat |-> <<>>, Zone |-> "",
     StartDay |-> <<>>, StartTime |-> <<>>, EndDay |-> <<>>, EndTime |-> <<>>]

\* Repeat{}
ZeroRepeat ==
    [RepeatType |-> RepeatTypeDaily, DayOfWeek |-> 0, RepeatOccurrences |-> 0,
     RepeatStopDate |-> <<>>]

(***************************************************************************)
(* ValidateInvite applied to one invite (specification SpecValidateInvite) *)
(***************************************************************************)
\* the statuses of the invites: the four defined ones and one on either side
InviteStatusArgs == (InviteStatusRevoked - 1)..(InviteStatusConfirmed + 1)

\* the permissions of the invites: every subset of the five flags, and two
\* values with a bit that is no flag
InvitePermissionArgs == 0..(2 * PermissionDelete + 1)

InitValidateInvite ==
    /\ arg \in [EventId : {1}, UserId : {7}, Status : InviteStatusArgs,
                Permission : InvitePermissionArgs]
    /\ ret = "none"
    /\ procs = <<>>
    /\ writes = <<>>
    /\ pc = "ready"
    /\ tmpl = ZeroEvent
    /\ genOut = [events |-> <<>>, err |-> "none"]
    /\ events = <<>>
    /\ invites = <<>>
    /\ curId = 0
    /\ last = [op |-> "none"]
    /\ nCreates = 0
    /\ nEdits = 0

\* ValidateInvite(a)
ValidateInvitation ==
    /\ pc = "ready"
    /\ ret' = ValidateInvite(arg)
    /\ pc' = "validated"
    /\ UNCHANGED <<arg, procs, writes, tmpl, genOut, storeVars>>

NextValidateInvite == ValidateInvitation

SpecValidateInvite == InitValidateInvite /\ [][NextValidateInvite]_vars

(***************************************************************************)
(* Properties of ValidateInvite, under SpecValidateInvite                  *)
(***************************************************************************)
\* the five flags
PermissionFlags ==
    {PermissionRead, PermissionModify, PermissionInvite, PermissionCancel, PermissionDelete}

\* the flags a permission holds
FlagsOf(permission) == {flag \in PermissionFlags : HasFlag(permission, flag)}

\* the implication chain: Delete needs Cancel, Cancel or Delete needs Modify,
\* Modify needs Invite, and any of Invite, Modify, Cancel, Delete needs Read
ChainHolds(permission) ==
    LET has == FlagsOf(permission)
    IN  /\ PermissionDelete \in has => PermissionCancel \in has
        /\ (PermissionCancel \in has \/ PermissionDelete \in has) => PermissionModify \in has
        /\ PermissionModify \in has => PermissionInvite \in has
        /\ has \ {PermissionRead} # {} => PermissionRead \in has

\* the five sets of flags that satisfy the chain and are not empty
ChainSets ==
    {{PermissionRead},
     {PermissionRead, PermissionInvite},
     {PermissionRead, PermissionInvite, PermissionModify},
     {PermissionRead, PermissionInvite, PermissionModify, PermissionCancel},
     PermissionFlags}

\* C14: given a valid permission set, ValidateInvite accepts the statuses
\* Pending, Confirmed, Declined and Revoked and rejects every other status
\* with ErrorInvalidInviteStatus.
C14_InviteStatuses ==
    (pc = "validated" /\ arg.Permission \in {PermissionInvitee, PermissionOwner}) =>
        IF arg.Status \in {InviteStatusPending, InviteStatusConfirmed,
                           InviteStatusDeclined, InviteStatusRevoked}
        THEN ret = NoErr
        ELSE ret = "ErrorInvalidInviteStatus"

\* C15: over the subsets of the five flags, ValidateInvite accepts a
\* permission iff it is not empty and satisfies the implication chain, that
\* is iff it is one of the five sets {Read}, {Read, Invite},
\* {Read, Invite, Modify}, {Read, Invite, Modify, Cancel} and the owner's.
C15_PermissionChain ==
    (/\ pc = "validated"
     /\ arg.Status \in {InviteStatusPending, InviteStatusConfirmed, InviteStatusDeclined}
     /\ arg.Permission \in 0..PermissionOwner) =>
        /\ ret = NoErr <=> FlagsOf(arg.Permission) # {} /\ ChainHolds(arg.Permission)
        /\ ret = NoErr <=> FlagsOf(arg.Permission) \in ChainSets
        /\ ret = NoErr <=> arg.Permission \in
                {PermissionRead, PermissionRead + PermissionInvite,
                 PermissionRead + PermissionInvite + PermissionModify,
                 PermissionRead + PermissionInvite + PermissionModify + PermissionCancel,
                 PermissionOwner}

\* a pending invite with Read, Invite, Modify and Cancel was accepted
C15_Witness ==
    /\ pc = "validated"
    /\ arg.Status = InviteStatusPending
    /\ FlagsOf(arg.Permission) =
          {PermissionRead, PermissionInvite, PermissionModify, PermissionCancel}
    /\ arg.Permission <= PermissionOwner
    /\ ret = NoErr

(***************************************************************************)
(* Validate applied to one event (specification SpecValidate)              *)
(***************************************************************************)
\* the latest stop date ValidRepeat accepts, from the start day
StopLimit == 24 * 3600 + MaxRepeatDuration

\* the occurrence counts of the events: from two below zero to two above
\* MaxRepeatOccurrence
ValidateCounts == (0 - 2)..(MaxRepeatOccurrence + 2)

\* the stop dates of the events, from the start day: none, a second on
\* either side of the start day and of the limit, and both ends
ValidateStops(startDay) ==
    {<<>>} \cup {<<ParseDay(startDay) + off>> :
                    off \in {0 - 1, 0, 1, StopLimit - 1, StopLimit, StopLimit + 1}}

\* the repeat types and days of week of the events
ValidateTypes ==
    {[RepeatType |-> RepeatTypeDaily, DayOfWeek |-> 0],
     [RepeatType |-> RepeatTypeWeekly, DayOfWeek |-> 0],
     [RepeatType |-> RepeatTypeWeekly, DayOfWeek |-> 2],
     [RepeatType |-> RepeatTypeYearly + 1, DayOfWeek |-> 0]}

\* a one-hour event of 2008-01-01 with a repeat pattern
ValidateEvent(count, stop, type) ==
    [ZeroEvent EXCEPT
        !.OwnerId = 1, !.Title = "standup", !.Zone = "UTC", !.IsRepeating = TRUE,
        !.StartDay = <<2008, 1, 1>>, !.StartTime = <<8, 0>>,
        !.EndDay = <<2008, 1, 1>>, !.EndTime = <<9, 0>>,
        !.Repeat = <<[RepeatType |-> type.RepeatType, DayOfWeek |-> type.DayOfWeek,
                      RepeatOccurrences |-> count, RepeatStopDate |-> stop]>>]

\* the events Validate is applied to: every count with every stop date and
\* type, and events that fail before or after the termination checks
ValidateEvents ==
    {ValidateEvent(count, stop, type) :
        count \in ValidateCounts, stop \in ValidateStops(<<2008, 1, 1>>), type \in ValidateTypes}
    \cup
    {[ValidateEvent(0, <<>>, [RepeatType |-> RepeatTypeDaily, DayOfWeek |-> 0])
        EXCEPT !.IsRepeating = FALSE],
     [ValidateEvent(3, <<>>, [RepeatType |-> RepeatTypeDaily, DayOfWeek |-> 0])
        EXCEPT !.Repeat = <<>>],
     [ValidateEvent(0, <<>>, [RepeatType |-> RepeatTypeDaily, DayOfWeek |-> 0])
        EXCEPT !.EndTime = <<7, 0>>],
     [ValidateEvent(3, <<>>, [RepeatType |-> RepeatTypeDaily, DayOfWeek |-> 0])
        EXCEPT !.Status = StatusRemoved - 1]}

InitValidate ==
    /\ arg \in ValidateEvents
    /\ ret = "none"
    /\ procs = <<>>
    /\ writes = <<>>
    /\ pc = "ready"
    /\ tmpl = ZeroEvent
    /\ genOut = [events |-> <<>>, err |-> "none"]
    /\ events = <<>>
    /\ invites = <<>>
    /\ curId = 0
    /\ last = [op |-> "none"]
    /\ nCreates = 0
    /\ nEdits = 0

\* Validate(e)
Validated ==
    /\ pc = "ready"
    /\ ret' = Validate(arg)
    /\ pc' = "validated"
    /\ UNCHANGED <<arg, procs, writes, tmpl, genOut, storeVars>>

NextValidate == Validated

SpecValidate == InitValidate /\ [][NextValidate]_vars

(***************************************************************************)
(* Properties of Validate, under SpecValidate                              *)
(***************************************************************************)
\* Validate was applied to a repeating event with a pattern
ValidatedPattern == pc = "validated" /\ arg.IsRepeating /\ arg.Repeat # <<>>

\* nothing but the termination condition can fail: the times, the repeat
\* type and the status of the event are valid
TerminationDecides ==
    /\ ValidatedPattern
    /\ ValidTimes(arg.StartDay, arg.StartTime, arg.EndDay, arg.EndTime, arg.Zone,
                  arg.IsAllDay) = NoErr
    /\ RepeatTypeError(arg.Repeat[1]) = NoErr
    /\ ValidStatus(arg.Status)

\* C17: every repeating event Validate accepts has exactly one termination
\* condition, a non-zero count without a stop date or a stop date with a zero
\* count; a pattern with neither is rejected with ErrorMissingEndOfRepeat and
\* a pattern with both is rejected.
C17_OneTermination ==
    ValidatedPattern =>
        LET count == arg.Repeat[1].RepeatOccurrences
            stop == arg.Repeat[1].RepeatStopDate
        IN  /\ ret = NoErr =>
                \/ count # 0 /\ stop = <<>>
                \/ count = 0 /\ stop # <<>>
            /\ (TerminationDecides /\ count = 0 /\ stop = <<>>) =>
                ret = "ErrorMissingEndOfRepeat"
            /\ (count # 0 /\ stop # <<>>) => ret # NoErr

\* C18: Validate rejects an occurrence count of 1, a negative count and a
\* count above 30, and accepts every count from 2 to 30; it accepts a stop
\* date iff the date is not before the start day (the start day itself is
\* accepted) and not after the start day + 1 day + 730 days.
C18_TerminationBounds ==
    TerminationDecides =>
        LET count == arg.Repeat[1].RepeatOccurrences
            stop == arg.Repeat[1].RepeatStopDate
            startDay == ParseDay(arg.StartDay)
        IN  /\ count > 30 => ret = "ErrorRepeatOccurrenceTooLarge"
            /\ (count = 1 \/ count < 0) => ret = "ErrorRepeatOccurrenceTooSmall"
            /\ (count \in 2..30 /\ stop = <<>>) => ret = NoErr
            /\ (count = 0 /\ stop # <<>>) =>
                /\ ret = NoErr <=>
                      /\ stop[1] >= startDay
                      /\ stop[1] <= startDay + SecondsPerDay + 730 * SecondsPerDay
                /\ stop[1] = startDay => ret = NoErr
                /\ stop[1] < startDay => ret = "ErrorRepeatStopDateIsBeforeStart"
                /\ stop[1] > startDay + SecondsPerDay + 730 * SecondsPerDay =>
                      ret = "ErrorRepeatStopDateTooLarge"
            /\ (stop # <<>> /\ ~(/\ stop[1] >= startDay
                                 /\ stop[1] <= startDay + SecondsPerDay + 730 * SecondsPerDay)) =>
                ret # NoErr

\* a stop date of exactly the start day + 1 day + 730 days was accepted
C18_Witness ==
    /\ TerminationDecides
    /\ arg.Repeat[1].RepeatOccurrences = 0
    /\ arg.Repeat[1].RepeatStopDate =
          <<ParseDay(arg.StartDay) + SecondsPerDay + 730 * SecondsPerDay>>
    /\ ret = NoErr

(***************************************************************************)
(* GenerateRepeatEvents                                                    *)
(***************************************************************************)
\* the (year, month, day) step of a repeat type
StepOf(repeatType) ==
    CASE repeatType = RepeatTypeDaily -> <<0, 0, 1>>
      [] repeatType = RepeatTypeMonthly -> <<0, 1, 0>>
      [] repeatType = RepeatTypeYearly -> <<1, 0, 0>>
      [] repeatType = RepeatTypeWeekly -> <<0, 0, 1>>
      [] OTHER -> <<0, 0, 0>>

\* increment(), on one of nextStart and nextEnd
Increment(t, step) == AddDate(t, step[1], step[2], step[3])

\* nextEvent := e, with the day strings of nextStart and nextEnd
NextEvent(e, nextStart, nextEnd) ==
    [e EXCEPT !.StartDay = FormatDay(nextStart), !.EndDay = FormatDay(nextEnd)]

\* does the weekly day-of-week mask hold the weekday of nextStart
DayIsMasked(r, nextStart) ==
    HasFlag(r.DayOfWeek, dayOfWeekFromWeekday(Weekday(nextStart)))

\* the element of a set of one element; in TheOne({F(v) : v \in {x}}) the
\* value x is computed once, however often F reads it
TheOne(S) == CHOOSE out \in S : TRUE

\* the loop variables of GenerateRepeatEvents; done is set when a loop is left
LoopState(nextStart, nextEnd, evs) ==
    [nextStart |-> nextStart, nextEnd |-> nextEnd, events |-> evs, err |-> NoErr,
     done |-> FALSE]

\* increment()
Advance(s, step) ==
    [s EXCEPT !.nextStart = Increment(s.nextStart, step),
              !.nextEnd = Increment(s.nextEnd, step)]

TooMany(s) ==
    [s EXCEPT !.events = <<>>, !.err = "ErrorTooManyRepeatOccurrences", !.done = TRUE]

\* Daily, Monthly, Yearly: one pass of the loop that runs until there are
\* RepeatOccurrences events
CountBody(e, r, step, s) ==
    IF ~(Len(s.events) < r.RepeatOccurrences) THEN [s EXCEPT !.done = TRUE]
    ELSE LET a == Advance(s, step)
         IN  [a EXCEPT !.events = Append(s.events, NextEvent(e, a.nextStart, a.nextEnd))]

\* Daily, Monthly, Yearly: one pass of the loop that runs until nextStart is
\* after the stop date
StopBody(e, r, step, s) ==
    IF s.nextStart > r.RepeatStopDate[1] THEN [s EXCEPT !.done = TRUE]
    ELSE IF Len(s.events) > MaxRepeatOccurrence THEN TooMany(s)
    ELSE LET a == Advance(s, step)
         IN  [a EXCEPT !.events = Append(s.events, NextEvent(e, a.nextStart, a.nextEnd))]

\* a variant of WeeklyCountBody that takes every day, masked or not
WeeklyCountBodyAnyDay(e, r, step, s) ==
    IF ~(Len(s.events) < r.RepeatOccurrences) THEN [s EXCEPT !.done = TRUE]
    ELSE Advance([s EXCEPT !.events = Append(s.events, NextEvent(e, s.nextStart, s.nextEnd))],
                 step)

\* Weekly: one pass of the loop that runs until there are RepeatOccurrences events
WeeklyCountBody(e, r, step, s) ==
    IF ~(Len(s.events) < r.RepeatOccurrences) THEN [s EXCEPT !.done = TRUE]
    ELSE IF ~DayIsMasked(r, s.nextStart) THEN Advance(s, step)
    ELSE Advance([s EXCEPT !.events = Append(s.events, NextEvent(e, s.nextStart, s.nextEnd))],
                 step)

\* a variant of WeeklyStopBody that takes every day, masked or not
WeeklyStopBodyAnyDay(e, r, step, s) ==
    IF s.nextStart > r.RepeatStopDate[1] THEN [s EXCEPT !.done = TRUE]
    ELSE IF Len(s.events) > MaxRepeatOccurrence THEN TooMany(s)
    ELSE Advance([s EXCEPT !.events = Append(s.events, NextEvent(e, s.nextStart, s.nextEnd))],
                 step)

\* Weekly: one pass of the loop that runs until nextStart is after the stop date
WeeklyStopBody(e, r, step, s) ==
    IF s.nextStart > r.RepeatStopDate[1] THEN [s EXCEPT !.done = TRUE]
    ELSE IF Len(s.events) > MaxRepeatOccurrence THEN TooMany(s)
    ELSE IF ~DayIsMasked(r, s.nextStart) THEN Advance(s, step)
    ELSE Advance([s EXCEPT !.events = Append(s.events, NextEvent(e, s.nextStart, s.nextEnd))],
                 step)

LoopBody(kind, e, r, step, s) ==
    CASE kind = "count" -> CountBody(e, r, step, s)
      [] kind = "stop" -> StopBody(e, r, step, s)
      [] kind = "weeklyCount" -> WeeklyCountBody(e, r, step, s)
      [] kind = "weeklyStop" -> WeeklyStopBody(e, r, step, s)

\* the passes a loop is followed for: more than any loop that ends needs (a
\* weekly walk to a stop date is at most 733 days long)
MaxLoopPasses == 1024

\* n passes of a loop, or fewer when the loop is left before
RECURSIVE RunLoop(_, _, _, _, _, _)
RunLoop(kind, e, r, step, s, n) ==
    IF s.done \/ n = 0 THEN s
    ELSE IF n = 1 THEN LoopBody(kind, e, r, step, s)
    ELSE TheOne({RunLoop(kind, e, r, step, half, n - n \div 2) :
                    half \in {RunLoop(kind, e, r, step, s, n \div 2)}})

\* a for loop of GenerateRepeatEvents: its events and error when it is left,
\* "diverges" when it is never left
ForLoop(kind, e, r, step, evs) ==
    TheOne({IF s.done THEN [events |-> s.events, err |-> s.err]
            ELSE [events |-> <<>>, err |-> "diverges"] :
                s \in {RunLoop(kind, e, r, step,
                               LoopState(ParseDay(e.StartDay), ParseDay(e.EndDay), evs),
                               MaxLoopPasses)}})

\* the switch on the repeat type, for a template that passed Validate
RepeatSwitch(e) ==
    LET r == e.Repeat[1]
        step == StepOf(r.RepeatType)
    IN  IF r.RepeatType \in {RepeatTypeDaily, RepeatTypeMonthly, RepeatTypeYearly}
        THEN IF r.RepeatOccurrences >= 2 THEN ForLoop("count", e, r, step, <<e>>)
             ELSE IF r.RepeatStopDate # <<>> THEN ForLoop("stop", e, r, step, <<e>>)
             ELSE [events |-> <<e>>, err |-> NoErr]
        ELSE IF r.RepeatType = RepeatTypeWeekly
        THEN IF r.RepeatOccurrences >= 2 THEN ForLoop("weeklyCount", e, r, step, <<>>)
             ELSE IF r.RepeatStopDate # <<>> THEN ForLoop("weeklyStop", e, r, step, <<>>)
             ELSE [events |-> <<>>, err |-> NoErr]
        ELSE [events |-> <<>>, err |-> NoErr]

\* a variant of the closing check that lets an empty list through
EmptyCheckOmitted(g) == g

\* the closing check: an empty list is an error
EmptyCheck(g) ==
    IF g.err # NoErr THEN g
    ELSE IF Len(g.events) = 0 THEN [events |-> <<>>, err |-> "ErrorEmptyRepeatingEvents"]
    ELSE g

GenerateRepeatEvents(e) ==
    IF ~e.IsRepeating THEN [events |-> <<>>, err |-> "ErrorNotRepeatingEvent"]
    ELSE IF ~DayParses(e.StartDay) THEN [events |-> <<>>, err |-> "ErrorInvalidStartDay"]
    ELSE IF ~DayParses(e.EndDay) THEN [events |-> <<>>, err |-> "ErrorInvalidEndDay"]
    ELSE IF Validate(e) # NoErr THEN [events |-> <<>>, err |-> Validate(e)]
    ELSE TheOne({EmptyCheck(g) : g \in {RepeatSwitch(e)}})

(***************************************************************************)
(* GenerateRepeatEvents applied to one template (specification SpecGen)    *)
(***************************************************************************)
\* the longest span, in days, from the start day to the end day of a template
MaxSpan == 1

\* the largest occurrence count below the edge cases 30 and 31
MaxSmallCount == 3

GenStartDays == {<<2008, 1, 1>>, <<2008, 1, 31>>, <<2008, 2, 29>>}

GenRepeatTypes ==
    {RepeatTypeDaily, RepeatTypeWeekly, RepeatTypeMonthly, RepeatTypeYearly, 4}

GenMasks ==
    {0, DayOfWeekTuesday, DayOfWeekWednesday + DayOfWeekThursday,
     DayOfWeekSunday + DayOfWeekMonday + DayOfWeekTuesday + DayOfWeekWednesday
        + DayOfWeekThursday + DayOfWeekFriday + DayOfWeekSaturday,
     2 * DayOfWeekSaturday}

GenCounts == (0 - 1 .. MaxSmallCount) \cup {MaxRepeatOccurrence, MaxRepeatOccurrence + 1}

\* stop dates, in days after the start day
GenStopOffsets == {0 - 1, 0, 1, 2, 15, 29, 30, 31, 731, 732}

GenRepeats ==
    {[RepeatType |-> rt, DayOfWeek |-> mask, RepeatOccurrences |-> n, RepeatStopDate |-> <<>>] :
        rt \in GenRepeatTypes, mask \in GenMasks, n \in GenCounts}

GenTemplate(startDay, span, repeat, stopOffset, withStop) ==
    [ZeroEvent EXCEPT
        !.OwnerId = 1, !.Title = "standup", !.Zone = "America/Denver",
        !.IsRepeating = TRUE,
        !.StartDay = startDay, !.StartTime = <<8, 0>>,
        !.EndDay = FormatDay(AddDate(ParseDay(startDay), 0, 0, span)), !.EndTime = <<9, 0>>,
        !.Repeat = <<[repeat EXCEPT !.RepeatStopDate =
                        IF withStop
                        THEN <<AddDate(ParseDay(startDay), 0, 0, stopOffset)>>
                        ELSE <<>>]>>]

GenTemplates ==
    {GenTemplate(sd, span, r, 0, FALSE) :
        sd \in GenStartDays, span \in 0..MaxSpan, r \in GenRepeats}
    \cup
    {GenTemplate(sd, span, r, off, TRUE) :
        sd \in GenStartDays, span \in 0..MaxSpan, r \in GenRepeats, off \in GenStopOffsets}
    \cup
    {[GenTemplate(<<2008, 1, 1>>, 0, ZeroRepeat, 0, FALSE) EXCEPT !.IsRepeating = FALSE],
     [GenTemplate(<<2008, 1, 1>>, 0, ZeroRepeat, 0, FALSE) EXCEPT !.Repeat = <<>>],
     [GenTemplate(<<2008, 1, 1>>, 0, ZeroRepeat, 1, TRUE) EXCEPT !.StartDay = <<2008, 13, 1>>],
     [GenTemplate(<<2008, 1, 1>>, 0, ZeroRepeat, 1, TRUE) EXCEPT !.EndDay = <<>>],
     [GenTemplate(<<2008, 1, 1>>, 0, ZeroRepeat, 1, TRUE) EXCEPT !.Zone = "not-a-zone"]}

NoGen == [events |-> <<>>, err |-> "none"]

InitGen ==
    /\ tmpl \in GenTemplates
    /\ genOut = NoGen
    /\ pc = "ready"
    /\ events = <<>>
    /\ invites = <<>>
    /\ curId = 0
    /\ last = [op |-> "none"]
    /\ nCreates = 0
    /\ nEdits = 0
    /\ arg = <<>>
    /\ ret = <<>>
    /\ procs = <<>>
    /\ writes = <<>>

Generate ==
    /\ pc = "ready"
    /\ genOut' = GenerateRepeatEvents(tmpl)
    /\ pc' = "done"
    /\ UNCHANGED <<tmpl, storeVars, fnVars>>

NextGen == Generate

SpecGen == InitGen /\ [][NextGen]_vars

(***************************************************************************)
(* Properties of GenerateRepeatEvents, under SpecGen                       *)
(***************************************************************************)
GenReturned == pc = "done" /\ genOut.err # "diverges"

GenSucceeded == pc = "done" /\ genOut.err = NoErr

TmplValid == Validate(tmpl) = NoErr

TmplCountMode == tmpl.Repeat[1].RepeatOccurrences >= 2

TmplStopMode ==
    tmpl.Repeat[1].RepeatOccurrences < 2 /\ tmpl.Repeat[1].RepeatStopDate # <<>>

TmplIs(repeatType) == tmpl.Repeat[1].RepeatType = repeatType

\* the days from the start day of the template through its stop date that
\* the day-of-week mask holds, as day offsets from the start day
MaskedOffsets ==
    LET start == ParseDay(tmpl.StartDay)
        stop == tmpl.Repeat[1].RepeatStopDate[1]
    IN  {k \in 0..((stop - start) \div SecondsPerDay) :
            DayIsMasked(tmpl.Repeat[1], start + k * SecondsPerDay)}

GenStartOf(i) == ParseDay(genOut.events[i].StartDay)

GenEndOf(i) == ParseDay(genOut.events[i].EndDay)

\* C6: GenerateRepeatEvents never returns successfully with more than 30
\* occurrences, and in stop-date mode a template whose series up to the stop
\* date would hold more than 30 occurrences (counted for Daily and Weekly,
\* the cadences that can reach 31 within two years) fails with
\* ErrorTooManyRepeatOccurrences and returns no events.
C6_NeverMoreThanMax ==
    /\ GenSucceeded => Len(genOut.events) <= MaxRepeatOccurrence
    /\ (pc = "done" /\ TmplValid /\ TmplStopMode) =>
          LET off == (tmpl.Repeat[1].RepeatStopDate[1] - ParseDay(tmpl.StartDay))
                        \div SecondsPerDay
              natural == IF TmplIs(RepeatTypeDaily) THEN off + 1
                         ELSE IF TmplIs(RepeatTypeWeekly) THEN Cardinality(MaskedOffsets)
                         ELSE 0
          IN  natural > MaxRepeatOccurrence =>
                 genOut.err = "ErrorTooManyRepeatOccurrences" /\ genOut.events = <<>>

\* C7, as claimed: whenever GenerateRepeatEvents succeeds on a template that
\* passes Validate, the returned sequence holds at least 2 occurrences.
C7_AtLeastTwo ==
    (GenSucceeded /\ TmplValid) => Len(genOut.events) >= 2

\* C7, amended: whenever GenerateRepeatEvents succeeds on a template that
\* passes Validate, the returned sequence holds at least 1 occurrence, and at
\* least 2 in count mode.
C7_AtLeastOne ==
    (GenSucceeded /\ TmplValid) =>
        /\ Len(genOut.events) >= 1
        /\ TmplCountMode => Len(genOut.events) >= 2

\* a Weekly stop-date series of a single occurrence
C7_Witness ==
    /\ GenSucceeded /\ TmplValid /\ TmplStopMode /\ TmplIs(RepeatTypeWeekly)
    /\ Len(genOut.events) = 1

\* C8: in stop-date mode every occurrence returned by GenerateRepeatEvents
\* has a start date on or before the stop date, for every cadence.
C8_NoOccurrenceAfterStop ==
    (GenSucceeded /\ TmplValid /\ TmplStopMode) =>
        \A i \in 1..Len(genOut.events) :
            GenStartOf(i) <= tmpl.Repeat[1].RepeatStopDate[1]

ZeroQuery ==
    [Start |-> <<>>, End |-> <<>>, EventIds |-> <<>>, ParentIds |-> <<>>,
     UserIds |-> <<>>, EventTypes |-> <<>>, SourceIds |-> <<>>, Statuses |-> <<>>,
     Text |-> <<>>]

\* is v one of the elements of the list
InList(list, v) == \E i \in 1..Len(list) : list[i] = v

\* the query's start, against the end of the event
MatchesStart(q, event) ==
    q.Start # <<>> =>
        LET startDay == FormatDay(q.Start[1])
            startTime == FormatTime(q.Start[1])
        IN  /\ ~StrLess(event.EndDay, startDay)
            /\ ~(event.EndTime # <<>>
                    /\ StrLess(event.EndDay \o event.EndTime, startDay \o startTime))

\* the query's end, against the start of the event
MatchesEnd(q, event) ==
    q.End # <<>> =>
        LET endDay == FormatDay(q.End[1])
            endTime == FormatTime(q.End[1])
        IN  /\ ~StrLess(endDay, event.StartDay)
            /\ ~(event.StartTime # <<>>
                    /\ StrLess(endDay \o endTime, event.StartDay \o event.StartTime))

\* a variant of MatchesParentIds that takes every event
MatchesParentIdsAny(q, event) == TRUE

\* a variant of MatchesParentIds that starts from the found of the event ids
MatchesParentIdsFoundKept(q, event) ==
    Len(q.ParentIds) > 0 =>
        \/ Len(q.EventIds) > 0 /\ InList(q.EventIds, event.Id)
        \/ event.ParentId # <<>> /\ InList(q.ParentIds, event.ParentId[1])

MatchesParentIds(q, event) ==
    Len(q.ParentIds) > 0 =>
        event.ParentId # <<>> /\ InList(q.ParentIds, event.ParentId[1])

MatchesSourceIds(q, event) ==
    Len(q.SourceIds) > 0 =>
        event.SourceId # <<>> /\ InList(q.SourceIds, event.SourceId[1])

\* strings.Contains(s, substr)
Contains(s, substr) ==
    \E i \in 1..(Len(s) - Len(substr) + 1) : SubSeq(s, i, i + Len(substr) - 1) = substr

\* the text filter: some text is in the title or in the description
MatchesText(q, event) ==
    Len(q.Text) > 0 =>
        \E i \in 1..Len(q.Text) :
            \/ Contains(event.Title, q.Text[i])
            \/ event.Description # <<>> /\ Contains(event.Description[1], q.Text[i])

\* Query.Matches
Matches(q, event) ==
    /\ MatchesStart(q, event)
    /\ MatchesEnd(q, event)
    /\ Len(q.EventIds) > 0 => InList(q.EventIds, event.Id)
    /\ MatchesParentIds(q, event)
    /\ Len(q.EventTypes) > 0 => InList(q.EventTypes, event.EventType)
    /\ MatchesSourceIds(q, event)
    /\ Len(q.Statuses) > 0 => InList(q.Statuses, event.Status)
    /\ MatchesText(q, event)

\* Query.Matches on a pointer: a nil event never matches
MatchesPointer(q, event) == IF event = <<>> THEN FALSE ELSE Matches(q, event[1])

(***************************************************************************)
(* Query.Matches applied to one event and one query (specification         *)
(* SpecMatch)                                                              *)
(***************************************************************************)
\* tt(s): the time of a "YYYY-MM-DD HH:MM" string
tt(day, hourMin) == parseDayTime(day, hourMin)

\* a one-hour event of 2008-01-01
MatchEvent ==
    [ZeroEvent EXCEPT !.Id = 1, !.OwnerId = 1, !.EventType = 1, !.Title = "standup",
                      !.StartDay = <<2008, 1, 1>>, !.StartTime = <<8, 0>>,
                      !.EndDay = <<2008, 1, 1>>, !.EndTime = <<9, 0>>]

\* the events Matches is applied to: the one-hour event, a member of a series
\* with a source and a description, an all-day event without times, an event
\* over midnight and an all-day event that carries times of day
MatchEvents ==
    {MatchEvent,
     [MatchEvent EXCEPT !.Id = 10, !.ParentId = <<10>>, !.SourceId = <<7>>,
                        !.EventType = 2, !.Status = StatusCanceled,
                        !.Description = <<"daily sync">>, !.IsRepeating = TRUE,
                        !.Repeat = <<[ZeroRepeat EXCEPT !.RepeatOccurrences = 3]>>],
     [MatchEvent EXCEPT !.Id = 2, !.IsAllDay = TRUE, !.Title = "offsite",
                        !.StartDay = <<2008, 1, 2>>, !.StartTime = <<>>,
                        !.EndDay = <<2008, 1, 2>>, !.EndTime = <<>>],
     [MatchEvent EXCEPT !.Id = 3, !.StartTime = <<22, 0>>,
                        !.EndDay = <<2008, 1, 2>>, !.EndTime = <<1, 0>>],
     [MatchEvent EXCEPT !.Id = 4, !.IsAllDay = TRUE]}

\* the bounds of the time windows; two of them are not whole minutes
MatchTimes ==
    {tt(<<2007, 12, 31>>, <<23, 59>>), tt(<<2008, 1, 1>>, <<8, 0>>),
     tt(<<2008, 1, 1>>, <<8, 0>>) + 30, tt(<<2008, 1, 1>>, <<9, 0>>),
     tt(<<2008, 1, 1>>, <<9, 0>>) + 30, tt(<<2008, 1, 1>>, <<10, 0>>),
     tt(<<2008, 1, 2>>, <<0, 0>>), tt(<<2008, 1, 2>>, <<0, 30>>),
     tt(<<2008, 1, 2>>, <<8, 0>>), tt(<<2008, 1, 3>>, <<0, 0>>)}

\* a nil pointer, or a pointer to one of the values
Pointers(S) == {<<>>} \cup {<<v>> : v \in S}

\* queries that hold a time window only
WindowQueries ==
    {[ZeroQuery EXCEPT !.Start = start, !.End = end] :
        start \in Pointers(MatchTimes), end \in Pointers(MatchTimes)}

\* queries over the attribute filters, with or without a time window
FilterQueries ==
    {[ZeroQuery EXCEPT !.Start = w[1], !.End = w[2], !.EventIds = eventIds,
                       !.ParentIds = parentIds, !.EventTypes = eventTypes,
                       !.SourceIds = sourceIds, !.Statuses = statuses, !.Text = text] :
        w \in {<<<<>>, <<>>>>,
               <<<<tt(<<2008, 1, 1>>, <<8, 30>>)>>, <<tt(<<2008, 1, 1>>, <<23, 0>>)>>>>,
               <<<<tt(<<2008, 1, 2>>, <<0, 0>>)>>, <<>>>>},
        eventIds \in {<<>>, <<1>>, <<5, 10>>},
        parentIds \in {<<>>, <<10>>, <<3>>},
        eventTypes \in {<<>>, <<1>>, <<2, 1>>},
        sourceIds \in {<<>>, <<7>>, <<8>>},
        statuses \in {<<>>, <<StatusActive>>, <<StatusRemoved, StatusCanceled>>},
        text \in {<<>>, <<"stand">>, <<"Stand", "sync">>}}
    \cup
    {[ZeroQuery EXCEPT !.UserIds = <<2>>, !.Statuses = statuses] :
        statuses \in {<<>>, <<StatusActive>>}}

NoMatch == "none"

InitMatch ==
    /\ arg \in [q : WindowQueries \cup FilterQueries, event : Pointers(MatchEvents)]
    /\ ret = NoMatch
    /\ procs = <<>>
    /\ writes = <<>>
    /\ pc = "ready"
    /\ tmpl = ZeroEvent
    /\ genOut = [events |-> <<>>, err |-> "none"]
    /\ events = <<>>
    /\ invites = <<>>
    /\ curId = 0
    /\ last = [op |-> "none"]
    /\ nCreates = 0
    /\ nEdits = 0

\* q.Matches(event)
Match ==
    /\ pc = "ready"
    /\ ret' = MatchesPointer(arg.q, arg.event)
    /\ pc' = "matched"
    /\ UNCHANGED <<arg, procs, writes, tmpl, genOut, storeVars>>

NextMatch == Match

SpecMatch == InitMatch /\ [][NextMatch]_vars

(***************************************************************************)
(* Properties of Query.Matches, under SpecMatch                            *)
(***************************************************************************)
Matched == pc = "matched" /\ arg.event # <<>>

\* the query holds nothing but a time window
WindowOnly == arg.q = [ZeroQuery EXCEPT !.Start = arg.q.Start, !.End = arg.q.End]

\* the event ends strictly before the instant t; an all-day event by its date
EndsBefore(event, t) ==
    IF event.IsAllDay THEN StrLess(event.EndDay, FormatDay(t))
    ELSE parseDayTime(event.EndDay, event.EndTime) < t

\* the event starts strictly after the instant t; an all-day event by its date
StartsAfter(event, t) ==
    IF event.IsAllDay THEN StrLess(FormatDay(t), event.StartDay)
    ELSE parseDayTime(event.StartDay, event.StartTime) > t

\* C11: with a start bound an event is rejected iff its end is strictly before
\* the query start, with an end bound iff its start is strictly after the
\* query end; an event that touches a bound matches, an absent bound imposes
\* no constraint and an all-day event is compared by date only.
C11_InclusiveOverlap ==
    (Matched /\ WindowOnly) =>
        (ret <=> /\ arg.q.Start # <<>> => ~EndsBefore(arg.event[1], arg.q.Start[1])
                 /\ arg.q.End # <<>> => ~StartsAfter(arg.event[1], arg.q.End[1]))

\* the categories of a query that Matches tests
Categories ==
    {"Window", "EventIds", "ParentIds", "EventTypes", "SourceIds", "Statuses", "Text"}

\* the list categories
ListCategories == Categories \ {"Window"}

\* the list of a list category
ListOf(q, c) ==
    CASE c = "EventIds" -> q.EventIds
      [] c = "ParentIds" -> q.ParentIds
      [] c = "EventTypes" -> q.EventTypes
      [] c = "SourceIds" -> q.SourceIds
      [] c = "Statuses" -> q.Statuses
      [] c = "Text" -> q.Text

\* the query supplies the category
Supplied(q, c) ==
    IF c = "Window" THEN q.Start # <<>> \/ q.End # <<>> ELSE Len(ListOf(q, c)) > 0

\* the query that keeps only one category of q
Only(q, c) ==
    [ZeroQuery EXCEPT
        !.Start = IF c = "Window" THEN q.Start ELSE <<>>,
        !.End = IF c = "Window" THEN q.End ELSE <<>>,
        !.EventIds = IF c = "EventIds" THEN q.EventIds ELSE <<>>,
        !.ParentIds = IF c = "ParentIds" THEN q.ParentIds ELSE <<>>,
        !.EventTypes = IF c = "EventTypes" THEN q.EventTypes ELSE <<>>,
        !.SourceIds = IF c = "SourceIds" THEN q.SourceIds ELSE <<>>,
        !.Statuses = IF c = "Statuses" THEN q.Statuses ELSE <<>>,
        !.Text = IF c = "Text" THEN q.Text ELSE <<>>]

\* q with the value v appended to the list of the category c
Extended(q, c, v) ==
    CASE c = "EventIds" -> [q EXCEPT !.EventIds = Append(@, v)]
      [] c = "ParentIds" -> [q EXCEPT !.ParentIds = Append(@, v)]
      [] c = "EventTypes" -> [q EXCEPT !.EventTypes = Append(@, v)]
      [] c = "SourceIds" -> [q EXCEPT !.SourceIds = Append(@, v)]
      [] c = "Statuses" -> [q EXCEPT !.Statuses = Append(@, v)]
      [] c = "Text" -> [q EXCEPT !.Text = Append(@, v)]

\* the values a list may be extended with
ExtraValues(c) == IF c = "Text" THEN {"offsite", "and"} ELSE {0 - 1, 1, 10}

\* the elements of a list
Range(list) == {list[i] : i \in 1..Len(list)}

\* some element of the list of the category c is the event's value (OR within
\* the list); the window is that of q alone
Passes(q, event, c) ==
    CASE c = "Window" -> Matches(Only(q, c), event)
      [] c = "EventIds" -> event.Id \in Range(q.EventIds)
      [] c = "ParentIds" -> event.ParentId # <<>> /\ event.ParentId[1] \in Range(q.ParentIds)
      [] c = "EventTypes" -> event.EventType \in Range(q.EventTypes)
      [] c = "SourceIds" -> event.SourceId # <<>> /\ event.SourceId[1] \in Range(q.SourceIds)
      [] c = "Statuses" -> event.Status \in Range(q.Statuses)
      [] c = "Text" ->
            \E text \in Range(q.Text) :
                \/ Contains(event.Title, text)
                \/ event.Description # <<>> /\ Contains(event.Description[1], text)

\* C12: an event matches a query iff it matches each query that keeps only one
\* of the supplied categories, and a query that keeps one list matches iff
\* some element of the list is the event's value; a query that supplies
\* nothing matches, a value added to a non-empty list never removes a match,
\* and a nil event never matches.
C12_AndAcrossOrWithin ==
    pc = "matched" =>
        IF arg.event = <<>> THEN ret = FALSE
        ELSE LET q == arg.q
                 event == arg.event[1]
                 supplied == {c \in Categories : Supplied(q, c)}
             IN  /\ ret <=> \A c \in supplied : Matches(Only(q, c), event)
                 /\ \A c \in supplied : Matches(Only(q, c), event) <=> Passes(q, event, c)
                 /\ supplied = {} => ret
                 /\ ret => \A c \in supplied \cap ListCategories :
                               \A v \in ExtraValues(c) : Matches(Extended(q, c, v), event)

\* a series member matched by a query that supplies every category, each list
\* holding the event's value next to another one
C12_Witness ==
    /\ pc = "matched"
    /\ ret = TRUE
    /\ arg.event # <<>>
    /\ arg.event[1].Id = 10
    /\ \A c \in Categories : Supplied(arg.q, c)
    /\ Len(arg.q.EventIds) > 1
    /\ Len(arg.q.Text) > 1

(***************************************************************************)
(* InMemoryDataStore: a store value d holds events, invites and curId      *)
(***************************************************************************)
NewStore == [events |-> <<>>, invites |-> <<>>, curId |-> 0]

\* the position in d.events of the first event with the id, 0 when there is none
IndexOf(d, eventId) ==
    IF \E i \in 1..Len(d.events) : d.events[i].Id = eventId
    THEN CHOOSE i \in 1..Len(d.events) :
            /\ d.events[i].Id = eventId
            /\ \A j \in 1..(i - 1) : d.events[j].Id # eventId
    ELSE 0

\* InMemoryDataStore.AddInvite
AddInvite(d, a) ==
    IF ValidateInvite(a) # NoErr THEN [store |-> d, err |-> ValidateInvite(a)]
    ELSE [store |-> [d EXCEPT !.invites = Append(@, a)], err |-> NoErr]

\* InMemoryDataStore.Create
StoreCreate(d, event) ==
    IF Validate(event) # NoErr THEN [store |-> d, event |-> <<>>, err |-> Validate(event)]
    ELSE LET id == d.curId + 1
             d1 == [d EXCEPT !.curId = id]
             e1 == [event EXCEPT !.Id = id]
             e2 == IF e1.IsRepeating /\ e1.ParentId = <<>>
                   THEN [e1 EXCEPT !.ParentId = <<id>>]
                   ELSE e1
             inv == AddInvite(d1, [EventId |-> id, UserId |-> e2.OwnerId,
                                   Status |-> InviteStatusConfirmed,
                                   Permission |-> PermissionOwner])
         IN  IF inv.err # NoErr THEN [store |-> d1, event |-> <<>>, err |-> inv.err]
             ELSE [store |-> [inv.store EXCEPT !.events = Append(@, e2)],
                   event |-> <<e2>>, err |-> NoErr]

\* the end of a setter: the first event with the id becomes updated, or
\* ErrorEventNotFound when no event has the id
SetEvent(d, eventId, updated) ==
    IF IndexOf(d, eventId) = 0 THEN [store |-> d, err |-> "ErrorEventNotFound"]
    ELSE [store |-> [d EXCEPT !.events[IndexOf(d, eventId)] = updated], err |-> NoErr]

\* the event a setter writes to; only read when there is one
Other(d, eventId) == d.events[IndexOf(d, eventId)]

\* a variant of SetStatus that keeps the status of an event that is no longer
\* active
SetStatusOnce(d, eventId, status) ==
    IF ~ValidStatus(status) THEN [store |-> d, err |-> "ErrorInvalidStatus"]
    ELSE IF IndexOf(d, eventId) # 0 /\ Other(d, eventId).Status # StatusActive
    THEN [store |-> d, err |-> NoErr]
    ELSE SetEvent(d, eventId, [Other(d, eventId) EXCEPT !.Status = status])

\* InMemoryDataStore.SetStatus
SetStatus(d, eventId, status) ==
    IF ~ValidStatus(status) THEN [store |-> d, err |-> "ErrorInvalidStatus"]
    ELSE SetEvent(d, eventId, [Other(d, eventId) EXCEPT !.Status = status])

\* InMemoryDataStore.SetTitle
SetTitle(d, eventId, title) ==
    SetEvent(d, eventId, [Other(d, eventId) EXCEPT !.Title = title])

\* InMemoryDataStore.SetDescription
SetDescription(d, eventId, description) ==
    SetEvent(d, eventId, [Other(d, eventId) EXCEPT !.Description = description])

\* InMemoryDataStore.SetUrl
SetUrl(d, eventId, url) ==
    SetEvent(d, eventId, [Other(d, eventId) EXCEPT !.Url = url])

\* DataStore.SetTime(eventId, startTime, endTime): the times of day of one event
SetTime(d, eventId, startTime, endTime) ==
    SetEvent(d, eventId,
             [Other(d, eventId) EXCEPT !.StartTime = startTime, !.EndTime = endTime])

\* ValidateDayTimeValues(startDay, startTime, endDay, endTime, zone, isAllDay)
ValidateDayTimeValues(startDay, startTime, endDay, endTime, zone, isAllDay) ==
    ValidTimes(startDay, startTime, endDay, endTime, zone, isAllDay)

\* DataStore.SetDayTime: the days, times, zone and all-day flag of one event
SetDayTime(d, eventId, startDay, startTime, endDay, endTime, zone, isAllDay) ==
    IF ValidateDayTimeValues(startDay, startTime, endDay, endTime, zone, isAllDay) # NoErr
    THEN [store |-> d,
          err |-> ValidateDayTimeValues(startDay, startTime, endDay, endTime, zone, isAllDay)]
    ELSE SetEvent(d, eventId,
                  [Other(d, eventId) EXCEPT !.StartDay = startDay, !.StartTime = startTime,
                                            !.EndDay = endDay, !.EndTime = endTime,
                                            !.IsAllDay = isAllDay, !.Zone = zone])

\* InMemoryDataStore.Get: nil, or a pointer to the event
Get(d, eventId) ==
    IF IndexOf(d, eventId) = 0 THEN <<>> ELSE <<d.events[IndexOf(d, eventId)]>>

\* InMemoryDataStore.Query
Query(d, q) == SelectSeq(d.events, LAMBDA event : Matches(q, event))

\* the position in d.invites of the first invite of the event and the user,
\* 0 when there is none
InviteIndexOf(d, eventId, userId) ==
    IF \E i \in 1..Len(d.invites) :
            d.invites[i].EventId = eventId /\ d.invites[i].UserId = userId
    THEN CHOOSE i \in 1..Len(d.invites) :
            /\ d.invites[i].EventId = eventId /\ d.invites[i].UserId = userId
            /\ \A j \in 1..(i - 1) :
                    ~(d.invites[j].EventId = eventId /\ d.invites[j].UserId = userId)
    ELSE 0

\* InMemoryDataStore.SetInviteStatus
SetInviteStatus(d, eventId, userId, status) ==
    IF InviteIndexOf(d, eventId, userId) = 0 THEN [store |-> d, err |-> "ErrorInviteNotFound"]
    ELSE [store |-> [d EXCEPT !.invites[InviteIndexOf(d, eventId, userId)].Status = status],
          err |-> NoErr]

\* InMemoryDataStore.SetInvitePermissions
SetInvitePermissions(d, eventId, userId, permissions) ==
    IF InviteIndexOf(d, eventId, userId) = 0 THEN [store |-> d, err |-> "ErrorInviteNotFound"]
    ELSE [store |-> [d EXCEPT
                        !.invites[InviteIndexOf(d, eventId, userId)].Permission = permissions],
          err |-> NoErr]

\* InMemoryDataStore.GetInvite: nil, or a pointer to the invite
GetInvite(d, eventId, userId) ==
    IF InviteIndexOf(d, eventId, userId) = 0 THEN <<>>
    ELSE <<d.invites[InviteIndexOf(d, eventId, userId)]>>

(***************************************************************************)
(* Sort                                                                    *)
(***************************************************************************)
\* the less function Sort hands to sort.SliceStable; the events are not nil
SortLess(A, B) ==
    IF StrLess(A.StartDay, B.StartDay) THEN TRUE
    ELSE IF StrLess(B.StartDay, A.StartDay) THEN FALSE
    ELSE ~StrLess(B.StartTime, A.StartTime)

\* the inner loop of insertionSort: the element at j moves down while it is
\* less than the one before it
RECURSIVE SwapDown(_, _)
SwapDown(e, j) ==
    IF j > 1 /\ SortLess(e[j], e[j - 1])
    THEN SwapDown([e EXCEPT ![j] = e[j - 1], ![j - 1] = e[j]], j - 1)
    ELSE e

\* the outer loop of insertionSort, from the element at i on
RECURSIVE InsertionSort(_, _)
InsertionSort(e, i) ==
    IF i > Len(e) THEN e
    ELSE TheOne({InsertionSort(swapped, i + 1) : swapped \in {SwapDown(e, i)}})

\* a variant of Sort that leaves the events in the order it got them
SortSkipped(e) == e

\* Sort(e), for at most 20 events, which sort.SliceStable sorts as one block
Sort(e) == InsertionSort(e, 2)

(***************************************************************************)
(* Calendar                                                                *)
(***************************************************************************)
\* a variant of CreateEach that, when the store fails, returns the count of
\* the events it persisted
RECURSIVE CreateEachCounted(_, _, _, _, _, _)
CreateEachCounted(d, evs, i, parentId, results, count) ==
    IF i > Len(evs)
    THEN [store |-> d, event |-> results[1], count |-> count, err |-> NoErr]
    ELSE LET event == IF parentId # <<>> THEN [evs[i] EXCEPT !.ParentId = parentId]
                      ELSE evs[i]
         IN  TheOne({IF c.err # NoErr
                     THEN [store |-> c.store, event |-> <<>>, count |-> count, err |-> c.err]
                     ELSE CreateEachCounted(c.store, evs, i + 1,
                                     IF c.event # <<>> /\ parentId = <<>>
                                     THEN <<c.event[1].Id>> ELSE parentId,
                                     Append(results, c.event),
                                     IF c.event # <<>> THEN count + 1 ELSE count) :
                        c \in {StoreCreate(d, event)}})

\* the loop of Calendar.Create over the generated events, from event i on
RECURSIVE CreateEach(_, _, _, _, _, _)
CreateEach(d, evs, i, parentId, results, count) ==
    IF i > Len(evs)
    THEN [store |-> d, event |-> results[1], count |-> count, err |-> NoErr]
    ELSE LET event == IF parentId # <<>> THEN [evs[i] EXCEPT !.ParentId = parentId]
                      ELSE evs[i]
         IN  TheOne({IF c.err # NoErr
                     THEN [store |-> c.store, event |-> <<>>, count |-> 0, err |-> c.err]
                     ELSE CreateEach(c.store, evs, i + 1,
                                     IF c.event # <<>> /\ parentId = <<>>
                                     THEN <<c.event[1].Id>> ELSE parentId,
                                     Append(results, c.event),
                                     IF c.event # <<>> THEN count + 1 ELSE count) :
                        c \in {StoreCreate(d, event)}})

\* Calendar.Create: the store after the call, the event, the count and the
\* error it returns
CalendarCreate(d, e) ==
    IF Validate(e) # NoErr
    THEN [store |-> d, event |-> <<>>, count |-> 0, err |-> Validate(e)]
    ELSE IF ~e.IsRepeating
    THEN TheOne({[store |-> c.store, event |-> c.event,
                  count |-> IF c.event # <<>> THEN 1 ELSE 0, err |-> c.err] :
                    c \in {StoreCreate(d, e)}})
    ELSE TheOne({IF g.err # NoErr
                 THEN [store |-> d, event |-> <<>>, count |-> 0, err |-> g.err]
                 ELSE IF Len(g.events) = 0
                 THEN [store |-> d, event |-> <<>>, count |-> 0,
                       err |-> "ErrorEmptyRepeatingEvents"]
                 ELSE CreateEach(d, g.events, 1, <<>>, <<>>, 0) :
                    g \in {GenerateRepeatEvents(e)}})

\* a variant of getAllRepeatingEvents that takes the event alone
getAllRepeatingEventsAlone(d, e) == <<e>>

\* Calendar.getAllRepeatingEvents
getAllRepeatingEvents(d, e) ==
    IF e.ParentId = <<>> THEN <<e>>
    ELSE Query(d, [ZeroQuery EXCEPT !.ParentIds = <<e.ParentId[1]>>])

\* Event.Start returns no error
StartParses(e) ==
    /\ e.StartDay # <<>>
    /\ DayParses(e.StartDay)
    /\ e.StartTime = <<>> \/ TimeParses(e.StartTime)

\* Calendar.getAllRepeatingEventsThisAndAfter; no events when Event.Start fails
getAllRepeatingEventsThisAndAfter(d, e) ==
    IF e.ParentId = <<>> THEN <<e>>
    ELSE IF ~StartParses(e) THEN <<>>
    ELSE Query(d, [ZeroQuery EXCEPT !.Start = <<parseDayTime(e.StartDay, e.StartTime)>>,
                                    !.ParentIds = <<e.ParentId[1]>>])

\* the function InviteUser hands to applyEditBasedOnRepeatEditType: a pending
\* invite of the user is validated and added
InviteOne(d, eventId, userId, permission) ==
    LET i == [EventId |-> eventId, UserId |-> userId, Status |-> InviteStatusPending,
              Permission |-> permission]
    IN  IF ValidateInvite(i) # NoErr THEN [store |-> d, err |-> ValidateInvite(i)]
        ELSE AddInvite(d, i)

\* the function f handed to applyEditBasedOnRepeatEditType, as the record m of
\* the data store setter it calls and the setter's argument
Apply(d, m, eventId) ==
    CASE m.kind = "SetStatus" -> SetStatus(d, eventId, m.arg)
      [] m.kind = "SetTitle" -> SetTitle(d, eventId, m.arg)
      [] m.kind = "SetDescription" -> SetDescription(d, eventId, m.arg)
      [] m.kind = "SetUrl" -> SetUrl(d, eventId, m.arg)
      [] m.kind = "SetTime" -> SetTime(d, eventId, m.arg[1], m.arg[2])
      [] m.kind = "SetInviteStatus" -> SetInviteStatus(d, eventId, m.arg[1], m.arg[2])
      [] m.kind = "SetInvitePermissions" ->
            SetInvitePermissions(d, eventId, m.arg[1], m.arg[2])
      [] m.kind = "AddInvite" -> InviteOne(d, eventId, m.arg[1], m.arg[2])

\* a variant of ApplyEach that goes on after a failure and returns the first
\* failure
RECURSIVE ApplyEachToTheEnd(_, _, _, _)
ApplyEachToTheEnd(d, m, evs, i) ==
    IF i > Len(evs) THEN [store |-> d, err |-> NoErr]
    ELSE TheOne({TheOne({[store |-> rest.store,
                          err |-> IF r.err # NoErr THEN r.err ELSE rest.err] :
                            rest \in {ApplyEachToTheEnd(r.store, m, evs, i + 1)}}) :
                    r \in {Apply(d, m, evs[i].Id)}})

\* for _, event := range events { err = f(event.Id) ... }, from event i on
RECURSIVE ApplyEach(_, _, _, _)
ApplyEach(d, m, evs, i) ==
    IF i > Len(evs) THEN [store |-> d, err |-> NoErr]
    ELSE TheOne({IF r.err # NoErr THEN r ELSE ApplyEach(r.store, m, evs, i + 1) :
                    r \in {Apply(d, m, evs[i].Id)}})

\* a variant of applyEditBasedOnRepeatEditType without the check of the
\* fetched event: an absent event has no occurrences and the loop does nothing
applyEditAbsentUnchecked(d, editType, eventId, m) ==
    CASE editType = RepeatEditTypeThis -> Apply(d, m, eventId)
      [] editType = RepeatEditTypeAll ->
            IF Get(d, eventId) = <<>> THEN [store |-> d, err |-> NoErr]
            ELSE TheOne({ApplyEach(d, m, evs, 1) :
                            evs \in {getAllRepeatingEvents(d, Get(d, eventId)[1])}})
      [] editType = RepeatEditTypeThisAndAfter ->
            IF Get(d, eventId) = <<>> THEN [store |-> d, err |-> NoErr]
            ELSE TheOne({ApplyEach(d, m, evs, 1) :
                            evs \in {getAllRepeatingEventsThisAndAfter(d, Get(d, eventId)[1])}})
      [] OTHER -> [store |-> d, err |-> "ErrorInvalidRepeatEditType"]

\* Calendar.applyEditBasedOnRepeatEditType
applyEditBasedOnRepeatEditType(d, editType, eventId, m) ==
    CASE editType = RepeatEditTypeThis -> Apply(d, m, eventId)
      [] editType = RepeatEditTypeAll ->
            IF Get(d, eventId) = <<>> THEN [store |-> d, err |-> "ErrorEventNotFound"]
            ELSE TheOne({ApplyEach(d, m, evs, 1) :
                            evs \in {getAllRepeatingEvents(d, Get(d, eventId)[1])}})
      [] editType = RepeatEditTypeThisAndAfter ->
            IF Get(d, eventId) = <<>> THEN [store |-> d, err |-> "ErrorEventNotFound"]
            ELSE TheOne({ApplyEach(d, m, evs, 1) :
                            evs \in {getAllRepeatingEventsThisAndAfter(d, Get(d, eventId)[1])}})
      [] OTHER -> [store |-> d, err |-> "ErrorInvalidRepeatEditType"]

\* Calendar.UpdateTime
CalendarUpdateTime(d, eventId, startTime, endTime, editType) ==
    IF ValidateTimeValues(startTime, endTime) # NoErr
    THEN [store |-> d, err |-> ValidateTimeValues(startTime, endTime)]
    ELSE applyEditBasedOnRepeatEditType(d, editType, eventId,
            [kind |-> "SetTime", arg |-> <<startTime, endTime>>])

\* Calendar.UpdateDayTime; a is the record of the day and time arguments
CalendarUpdateDayTime(d, eventId, a) ==
    IF ValidateDayTimeValues(a.startDay, a.startTime, a.endDay, a.endTime, a.zone,
                             a.isAllDay) # NoErr
    THEN [store |-> d,
          err |-> ValidateDayTimeValues(a.startDay, a.startTime, a.endDay, a.endTime,
                                        a.zone, a.isAllDay)]
    ELSE SetDayTime(d, eventId, a.startDay, a.startTime, a.endDay, a.endTime, a.zone,
                    a.isAllDay)

\* Calendar.Query
CalendarQuery(d, q) == [events |-> Sort(Query(d, q)), err |-> NoErr]

(***************************************************************************)
(* A Calendar over an InMemoryDataStore (specification Spec)               *)
(***************************************************************************)
\* the calls of Calendar.Create in a behaviour
MaxCreates == 2

\* the edits in a behaviour
MaxEdits == 1

\* a meeting on 2008-01-01, 08:00 to 09:00, that does not repeat
Meeting ==
    [ZeroEvent EXCEPT !.OwnerId = 1, !.Title = "standup", !.Zone = "America/Denver",
                      !.StartDay = <<2008, 1, 1>>, !.StartTime = <<8, 0>>,
                      !.EndDay = <<2008, 1, 1>>, !.EndTime = <<9, 0>>]

Repeating(e, repeat) == [e EXCEPT !.IsRepeating = TRUE, !.Repeat = <<repeat>>]

\* the events handed to Calendar.Create
CalTemplates ==
    {\* a single event
     Meeting,
     \* an all-day event on Tuesdays and Thursdays through Tuesday 2008-01-08
     Repeating([Meeting EXCEPT !.IsAllDay = TRUE, !.StartTime = <<>>, !.EndTime = <<>>],
               [ZeroRepeat EXCEPT !.RepeatType = RepeatTypeWeekly,
                            !.DayOfWeek = DayOfWeekTuesday + DayOfWeekThursday,
                            !.RepeatStopDate = <<ParseDay(<<2008, 1, 8>>)>>]),
     \* three days in a row, each occurrence ending on the day after it starts
     Repeating([Meeting EXCEPT !.EndDay = <<2008, 1, 2>>],
               [ZeroRepeat EXCEPT !.RepeatType = RepeatTypeDaily, !.RepeatOccurrences = 3]),
     \* every day through 2008-01-02
     Repeating(Meeting, [ZeroRepeat EXCEPT !.RepeatType = RepeatTypeDaily,
                            !.RepeatStopDate = <<ParseDay(<<2008, 1, 2>>)>>]),
     \* two Tuesdays, handed over with a parent id already set
     Repeating([Meeting EXCEPT !.ParentId = <<99>>],
               [ZeroRepeat EXCEPT !.RepeatType = RepeatTypeWeekly,
                            !.DayOfWeek = DayOfWeekTuesday, !.RepeatOccurrences = 2]),
     \* Thursdays through Wednesday 2008-01-02: no occurrence
     Repeating(Meeting, [ZeroRepeat EXCEPT !.RepeatType = RepeatTypeWeekly,
                            !.DayOfWeek = DayOfWeekThursday,
                            !.RepeatStopDate = <<ParseDay(<<2008, 1, 2>>)>>]),
     \* three months in a row from 2008-01-31, each occurrence ending on the
     \* day after it starts
     Repeating([Meeting EXCEPT !.StartDay = <<2008, 1, 31>>, !.EndDay = <<2008, 2, 1>>],
               [ZeroRepeat EXCEPT !.RepeatType = RepeatTypeMonthly,
                            !.RepeatOccurrences = 3]),
     \* an event that ends before it starts
     [Meeting EXCEPT !.EndDay = <<2007, 12, 31>>]}

\* the edit types handed to the edits: the three known ones and an unknown one
EditTypes ==
    {RepeatEditTypeThis, RepeatEditTypeAll, RepeatEditTypeThisAndAfter,
     RepeatEditTypeThisAndAfter + 1}

\* the event ids handed to the edits: those the store gave out and the next one
EventIdArgs == 1..(curId + 1)

\* the times handed to UpdateTime: a valid pair, one that ends before it
\* starts and one whose start is no time of day
TimeArgs == {<<<<10, 0>>, <<11, 0>>>>, <<<<11, 0>>, <<10, 0>>>>, <<<<24, 0>>, <<11, 0>>>>}

\* the arguments handed to UpdateDayTime: a valid move to 2008-01-03 and one
\* with a day that does not parse
DayTimeArgs ==
    {[startDay |-> <<2008, 1, 3>>, startTime |-> <<13, 0>>, endDay |-> <<2008, 1, 3>>,
      endTime |-> <<14, 0>>, zone |-> "UTC", isAllDay |-> FALSE],
     [startDay |-> <<2008, 2, 30>>, startTime |-> <<13, 0>>, endDay |-> <<2008, 3, 1>>,
      endTime |-> <<14, 0>>, zone |-> "UTC", isAllDay |-> FALSE]}

TheStore == [events |-> events, invites |-> invites, curId |-> curId]

\* the record of the last call: its arguments, what it returned and the
\* events of the store before it
NoCall ==
    [op |-> "none", eventId |-> 0, editType |-> 0, m |-> [kind |-> "none", arg |-> 0],
     template |-> ZeroEvent, err |-> NoErr, count |-> 0, event |-> <<>>, pre |-> <<>>,
     preInvites |-> <<>>, q |-> ZeroQuery, result |-> <<>>, queryErr |-> NoErr]

Init ==
    /\ events = NewStore.events
    /\ invites = NewStore.invites
    /\ curId = NewStore.curId
    /\ last = NoCall
    /\ nCreates = 0
    /\ nEdits = 0
    /\ tmpl = ZeroEvent
    /\ genOut = NoGen
    /\ pc = "calendar"
    /\ arg = <<>>
    /\ ret = <<>>
    /\ procs = <<>>
    /\ writes = <<>>

\* c.Create(e)
Create(e) ==
    /\ nCreates < MaxCreates
    /\ \E r \in {CalendarCreate(TheStore, e)} :
           /\ events' = r.store.events
           /\ invites' = r.store.invites
           /\ curId' = r.store.curId
           /\ last' = [NoCall EXCEPT !.op = "Create", !.template = e, !.err = r.err,
                                     !.count = r.count, !.event = r.event, !.pre = events,
                                     !.preInvites = invites]
    /\ nCreates' = nCreates + 1
    /\ UNCHANGED <<nEdits, genVars, fnVars>>

\* a call of an edit op that asked for the setter m and ended in result
Called(op, eventId, editType, m, result) ==
    /\ \E r \in {result} :
           /\ events' = r.store.events
           /\ invites' = r.store.invites
           /\ curId' = r.store.curId
           /\ last' = [NoCall EXCEPT !.op = op, !.eventId = eventId,
                                     !.editType = editType, !.m = m, !.err = r.err,
                                     !.pre = events, !.preInvites = invites]
    /\ nEdits' = nEdits + 1
    /\ UNCHANGED <<nCreates, genVars, fnVars>>

\* an edit op that asked for the setter m and ended in result
Edited(op, eventId, editType, m, result) ==
    /\ nEdits < MaxEdits
    /\ Called(op, eventId, editType, m, result)

\* the edit through applyEditBasedOnRepeatEditType that calls the setter m
Cascaded(op, eventId, editType, m) ==
    Edited(op, eventId, editType, m,
           applyEditBasedOnRepeatEditType(TheStore, editType, eventId, m))

\* c.Cancel(eventId, editType)
Cancel(eventId, editType) ==
    Cascaded("Cancel", eventId, editType, [kind |-> "SetStatus", arg |-> StatusCanceled])

\* c.Remove(eventId, editType)
Remove(eventId, editType) ==
    Cascaded("Remove", eventId, editType, [kind |-> "SetStatus", arg |-> StatusRemoved])

\* c.UpdateTitle(eventId, title, editType)
UpdateTitle(eventId, title, editType) ==
    Cascaded("UpdateTitle", eventId, editType, [kind |-> "SetTitle", arg |-> title])

\* c.UpdateDescription(eventId, description, editType)
UpdateDescription(eventId, description, editType) ==
    Cascaded("UpdateDescription", eventId, editType,
             [kind |-> "SetDescription", arg |-> description])

\* c.UpdateUrl(eventId, url, editType)
UpdateUrl(eventId, url, editType) ==
    Cascaded("UpdateUrl", eventId, editType, [kind |-> "SetUrl", arg |-> url])

\* c.UpdateTime(eventId, startTime, endTime, editType)
UpdateTime(eventId, startTime, endTime, editType) ==
    Called("UpdateTime", eventId, editType,
           [kind |-> "SetTime", arg |-> <<startTime, endTime>>],
           CalendarUpdateTime(TheStore, eventId, startTime, endTime, editType))

\* c.UpdateDayTime(eventId, startDay, startTime, endDay, endTime, zone, isAllDay)
UpdateDayTime(eventId, a) ==
    Called("UpdateDayTime", eventId, RepeatEditTypeThis,
           [kind |-> "SetDayTime", arg |-> a],
           CalendarUpdateDayTime(TheStore, eventId, a))

\* a call of an invitation op through applyEditBasedOnRepeatEditType
Invitation(op, eventId, editType, m) ==
    Called(op, eventId, editType, m,
           applyEditBasedOnRepeatEditType(TheStore, editType, eventId, m))

\* c.AcceptInvitation(eventId, userId, editType)
AcceptInvitation(eventId, userId, editType) ==
    Invitation("AcceptInvitation", eventId, editType,
               [kind |-> "SetInviteStatus", arg |-> <<userId, InviteStatusConfirmed>>])

\* c.DeclineInvitation(eventId, userId, editType)
DeclineInvitation(eventId, userId, editType) ==
    Invitation("DeclineInvitation", eventId, editType,
               [kind |-> "SetInviteStatus", arg |-> <<userId, InviteStatusDeclined>>])

\* c.RevokeInvitation(eventId, userId, editType)
RevokeInvitation(eventId, userId, editType) ==
    Invitation("RevokeInvitation", eventId, editType,
               [kind |-> "SetInviteStatus", arg |-> <<userId, InviteStatusRevoked>>])

\* c.InviteUser(eventId, userId, permission, editType)
InviteUser(eventId, userId, permission, editType) ==
    Invitation("InviteUser", eventId, editType,
               [kind |-> "AddInvite", arg |-> <<userId, permission>>])

\* c.UpdateInvitationPermission(eventId, userId, permission, editType)
UpdateInvitationPermission(eventId, userId, permission, editType) ==
    Invitation("UpdateInvitationPermission", eventId, editType,
               [kind |-> "SetInvitePermissions", arg |-> <<userId, permission>>])

\* c.Query(q)
CalQuery(q) ==
    /\ \E r \in {CalendarQuery(TheStore, q)} :
           last' = [NoCall EXCEPT !.op = "Query", !.q = q, !.result = r.events,
                                  !.err = r.err, !.pre = events, !.preInvites = invites]
    /\ nEdits' = nEdits + 1
    /\ UNCHANGED <<events, invites, curId, nCreates, genVars, fnVars>>

\* the users handed to the invitation ops: the owner of the templates and a guest
UserIdArgs == {1, 7}

\* the permissions handed to InviteUser and UpdateInvitationPermission: an
\* invitee's, and Delete without the flags it needs
PermissionArgs == {PermissionInvitee, PermissionDelete}

Next ==
    \/ \E e \in CalTemplates : Create(e)
    \/ \E eventId \in EventIdArgs, editType \in EditTypes : Cancel(eventId, editType)
    \/ \E eventId \in EventIdArgs, editType \in EditTypes : Remove(eventId, editType)
    \/ \E eventId \in EventIdArgs, editType \in EditTypes :
          UpdateTitle(eventId, "retro", editType)
    \/ \E eventId \in EventIdArgs, editType \in EditTypes :
          UpdateDescription(eventId, <<"notes">>, editType)
    \/ \E eventId \in EventIdArgs, editType \in EditTypes :
          UpdateUrl(eventId, <<"https://example.com">>, editType)
    \/ /\ nEdits < MaxEdits
       /\ \E eventId \in EventIdArgs, editType \in EditTypes, t \in TimeArgs :
             UpdateTime(eventId, t[1], t[2], editType)
    \/ /\ nEdits < MaxEdits
       /\ \E eventId \in EventIdArgs, a \in DayTimeArgs : UpdateDayTime(eventId, a)
    \/ /\ nEdits < MaxEdits
       /\ \E eventId \in EventIdArgs, userId \in UserIdArgs, editType \in EditTypes :
             AcceptInvitation(eventId, userId, editType)
    \/ /\ nEdits < MaxEdits
       /\ \E eventId \in EventIdArgs, userId \in UserIdArgs, editType \in EditTypes :
             DeclineInvitation(eventId, userId, editType)
    \/ /\ nEdits < MaxEdits
       /\ \E eventId \in EventIdArgs, userId \in UserIdArgs, editType \in EditTypes :
             RevokeInvitation(eventId, userId, editType)
    \/ /\ nEdits < MaxEdits
       /\ \E eventId \in EventIdArgs, userId \in UserIdArgs,
             permission \in PermissionArgs, editType \in EditTypes :
             InviteUser(eventId, userId, permission, editType)
    \/ /\ nEdits < MaxEdits
       /\ \E eventId \in EventIdArgs, userId \in UserIdArgs,
             permission \in PermissionArgs, editType \in EditTypes :
             UpdateInvitationPermission(eventId, userId, permission, editType)

Spec == Init /\ [][Next]_vars

(***************************************************************************)
(* Properties of the Calendar, under Spec                                  *)
(***************************************************************************)
\* the edits that go through applyEditBasedOnRepeatEditType
CascadedOps ==
    {"Cancel", "Remove", "UpdateTitle", "UpdateDescription", "UpdateUrl", "UpdateTime"}

\* the events the last call of Create added to the store
Added == SubSeq(events, Len(last.pre) + 1, Len(events))

\* the event x with the setter of the last edit applied to it
Mutated(x) ==
    CASE last.m.kind = "SetStatus" -> [x EXCEPT !.Status = last.m.arg]
      [] last.m.kind = "SetTitle" -> [x EXCEPT !.Title = last.m.arg]
      [] last.m.kind = "SetDescription" -> [x EXCEPT !.Description = last.m.arg]
      [] last.m.kind = "SetUrl" -> [x EXCEPT !.Url = last.m.arg]
      [] last.m.kind = "SetTime" ->
            [x EXCEPT !.StartTime = last.m.arg[1], !.EndTime = last.m.arg[2]]

\* the positions, in the store before the last edit, of the edit's target
TargetAt == {t \in 1..Len(last.pre) : last.pre[t].Id = last.eventId}

\* does x start at or after y, by (start day, start time)
StartsAtOrAfter(x, y) ==
    ~StrLess(x.StartDay \o x.StartTime, y.StartDay \o y.StartTime)

\* C1: Calendar.Create on a valid event reports a count equal to the number
\* of events the call added to the store: 1 for a non-repeating event, the
\* length of the generated series for a repeating event; the store grows by
\* the reported count and the returned event is the first one persisted.
C1_CreateCount ==
    (last.op = "Create" /\ Validate(last.template) = NoErr) =>
        /\ Len(events) = Len(last.pre) + last.count
        /\ ~last.template.IsRepeating => last.count = 1
        /\ (last.template.IsRepeating
                /\ GenerateRepeatEvents(last.template).err = NoErr) =>
              last.count = Len(GenerateRepeatEvents(last.template).events)
        /\ Len(events) > Len(last.pre) => last.event = <<events[Len(last.pre) + 1]>>

\* C2: after Calendar.Create succeeds on a valid repeating template, every
\* occurrence the call persisted, the head included, has the id the store
\* gave the head as its parent id, and a query by that parent id returns
\* every one of them.
C2_ParentIsHead ==
    (last.op = "Create" /\ last.err = NoErr /\ last.template.IsRepeating) =>
        /\ Len(Added) > 0
        /\ \A i \in 1..Len(Added) : Added[i].ParentId = <<Added[1].Id>>
        /\ \A i \in 1..Len(Added) :
              InList(Query(TheStore, [ZeroQuery EXCEPT !.ParentIds = <<Added[1].Id>>]),
                     Added[i])

\* C3: with edit type All, a Cancel, Remove, UpdateTitle, UpdateDescription,
\* UpdateUrl or UpdateTime that returns no error has applied its setter to
\* every stored event that shares the parent id of the target, whichever
\* member of the series is the target, and to the target alone when the
\* target has no parent id.
C3_AllReachesSeries ==
    (last.op \in CascadedOps /\ last.editType = RepeatEditTypeAll /\ last.err = NoErr) =>
        /\ TargetAt # {}
        /\ Len(events) = Len(last.pre)
        /\ \A t \in TargetAt, i \in 1..Len(last.pre) :
              (IF last.pre[t].ParentId = <<>> THEN i = t
               ELSE last.pre[i].ParentId = last.pre[t].ParentId)
                 => events[i] = Mutated(last.pre[i])

\* an edit of type All, aimed at a later member of a series of three, that
\* changed the store
C3_Witness ==
    /\ last.op \in CascadedOps /\ last.editType = RepeatEditTypeAll /\ last.err = NoErr
    /\ events # last.pre
    /\ \E t \in TargetAt :
          /\ last.pre[t].ParentId # <<>>
          /\ last.pre[t].ParentId # <<last.eventId>>
          /\ Cardinality({i \in 1..Len(last.pre) :
                            last.pre[i].ParentId = last.pre[t].ParentId}) >= 3

\* C4: with edit type ThisAndAfter, an edit that returns no error has
\* applied its setter to exactly the members of the target's series whose
\* (start day, start time) is at or after the target's, and to no member
\* that starts earlier; for single-day and for multi-day occurrences.
C4_ThisAndAfterByStart ==
    (/\ last.op \in CascadedOps
     /\ last.editType = RepeatEditTypeThisAndAfter
     /\ last.err = NoErr) =>
        /\ TargetAt # {}
        /\ Len(events) = Len(last.pre)
        /\ \A t \in TargetAt, i \in 1..Len(last.pre) :
              (last.pre[t].ParentId # <<>> /\ last.pre[i].ParentId = last.pre[t].ParentId)
                 => events[i] = IF StartsAtOrAfter(last.pre[i], last.pre[t])
                                THEN Mutated(last.pre[i])
                                ELSE last.pre[i]

\* C5: an edit never changes an event it did not select: with edit type
\* This, and for UpdateDayTime, every stored event other than the target is
\* left as it was; with edit type All or ThisAndAfter every stored event
\* whose parent id differs from the target's is left as it was (every other
\* event when the target has no parent id); and an edit whose target is not
\* in the store, or whose edit type is unknown, changes no event.
C5_Frame ==
    (last.op \in CascadedOps \cup {"UpdateDayTime"}) =>
        /\ Len(events) = Len(last.pre)
        /\ \A i \in 1..Len(last.pre) :
              IF last.op = "UpdateDayTime" \/ last.editType = RepeatEditTypeThis
              THEN last.pre[i].Id # last.eventId => events[i] = last.pre[i]
              ELSE IF last.editType \in {RepeatEditTypeAll, RepeatEditTypeThisAndAfter}
              THEN /\ TargetAt = {} => events[i] = last.pre[i]
                   /\ \A t \in TargetAt :
                         (IF last.pre[t].ParentId = <<>> THEN i # t
                          ELSE last.pre[i].ParentId # last.pre[t].ParentId)
                            => events[i] = last.pre[i]
              ELSE events[i] = last.pre[i]

\* an edit of type All or ThisAndAfter that changed the target's series while
\* the store held an event of another series
C5_Witness ==
    /\ last.op \in CascadedOps
    /\ last.editType \in {RepeatEditTypeAll, RepeatEditTypeThisAndAfter}
    /\ last.err = NoErr
    /\ events # last.pre
    /\ \E t \in TargetAt, i \in 1..Len(last.pre) :
          /\ last.pre[t].ParentId # <<>>
          /\ last.pre[i].ParentId # <<>>
          /\ last.pre[i].ParentId # last.pre[t].ParentId

(***************************************************************************)
(* Invitations and queries on a Calendar (specification SpecInvite)        *)
(***************************************************************************)
\* the calls of Calendar.Create in a behaviour of SpecInvite
MaxInviteCreates == 1

\* the invitation calls and queries in a behaviour of SpecInvite
MaxInviteCalls == 2

\* the events handed to Calendar.Create: an all-day event and three meetings
\* on three days in a row, both owned by user 1
InviteTemplates ==
    {[Meeting EXCEPT !.IsAllDay = TRUE, !.StartTime = <<>>, !.EndTime = <<>>, !.Zone = ""],
     Repeating(Meeting, [ZeroRepeat EXCEPT !.RepeatType = RepeatTypeDaily,
                            !.RepeatOccurrences = 3])}

\* the queries handed to Calendar.Query
InviteQueries ==
    {[ZeroQuery EXCEPT !.UserIds = userIds, !.Statuses = statuses] :
        userIds \in {<<>>, <<1>>, <<7>>, <<7, 1>>},
        statuses \in {<<>>, <<StatusActive>>}}

NextInvite ==
    \/ /\ nCreates < MaxInviteCreates
       /\ \E e \in InviteTemplates : Create(e)
    \/ /\ nEdits < MaxInviteCalls
       /\ \E eventId \in EventIdArgs, userId \in UserIdArgs, editType \in EditTypes :
             AcceptInvitation(eventId, userId, editType)
    \/ /\ nEdits < MaxInviteCalls
       /\ \E eventId \in EventIdArgs, userId \in UserIdArgs, editType \in EditTypes :
             DeclineInvitation(eventId, userId, editType)
    \/ /\ nEdits < MaxInviteCalls
       /\ \E eventId \in EventIdArgs, userId \in UserIdArgs, editType \in EditTypes :
             RevokeInvitation(eventId, userId, editType)
    \/ /\ nEdits < MaxInviteCalls
       /\ \E eventId \in EventIdArgs, userId \in UserIdArgs,
             permission \in PermissionArgs, editType \in EditTypes :
             InviteUser(eventId, userId, permission, editType)
    \/ /\ nEdits < MaxInviteCalls
       /\ \E eventId \in EventIdArgs, userId \in UserIdArgs,
             permission \in PermissionArgs, editType \in EditTypes :
             UpdateInvitationPermission(eventId, userId, permission, editType)
    \/ /\ nEdits < MaxInviteCalls
       /\ \E q \in InviteQueries : CalQuery(q)

SpecInvite == Init /\ [][NextInvite]_vars

(***************************************************************************)
(* Properties of invitations and queries, under SpecInvite                 *)
(***************************************************************************)
\* the user owns the event, or holds an invitation to it that is neither
\* declined nor revoked
Attends(userId, event) ==
    \/ event.OwnerId = userId
    \/ \E i \in 1..Len(invites) :
          /\ invites[i].EventId = event.Id
          /\ invites[i].UserId = userId
          /\ invites[i].Status \notin {InviteStatusDeclined, InviteStatusRevoked}

\* C13: a Calendar.Query with a non-empty UserIds list returns exactly the
\* otherwise matching events that one of the listed users owns or holds an
\* invitation to that is not declined or revoked.
C13_QueryByUser ==
    (last.op = "Query" /\ Len(last.q.UserIds) > 0) =>
        Range(last.result) =
            {event \in Range(events) :
                /\ Matches([last.q EXCEPT !.UserIds = <<>>], event)
                /\ \E userId \in Range(last.q.UserIds) : Attends(userId, event)}

\* C16: after any sequence of Calendar operations, every invitation held in
\* the store has a permission that satisfies the implication chain
\* Delete -> Cancel -> Modify -> Invite -> Read.
C16_StoredPermissionChain ==
    \A i \in 1..Len(invites) : ChainHolds(invites[i].Permission)

\* the store before the last call
StoreBefore == [events |-> last.pre, invites |-> last.preInvites, curId |-> curId]

\* the last call was an invitation op with scope All or ThisAndAfter on an
\* event of the store
CascadedInvitation ==
    /\ last.op \in {"AcceptInvitation", "DeclineInvitation", "RevokeInvitation",
                    "InviteUser", "UpdateInvitationPermission"}
    /\ last.editType \in {RepeatEditTypeAll, RepeatEditTypeThisAndAfter}
    /\ Get(StoreBefore, last.eventId) # <<>>

\* the occurrences the last call selected, in the order of the loop
SelectedBefore ==
    IF last.editType = RepeatEditTypeAll
    THEN getAllRepeatingEvents(StoreBefore, Get(StoreBefore, last.eventId)[1])
    ELSE getAllRepeatingEventsThisAndAfter(StoreBefore, Get(StoreBefore, last.eventId)[1])

\* the mutation of the last call on the occurrence alone, from the store
\* before the call
AloneOn(eventId) == Apply(StoreBefore, last.m, eventId)

\* the invitations to an event, in the order of the store
InvitesOf(all, eventId) ==
    LET keep == {i \in 1..Len(all) : all[i].EventId = eventId}
        nth[k \in 0..Len(all)] ==
            IF k = 0 THEN <<>>
            ELSE IF k \in keep THEN Append(nth[k - 1], all[k]) ELSE nth[k - 1]
    IN  nth[Len(all)]

\* the positions of the selected occurrences the mutation fails on
FailingPositions == {k \in 1..Len(SelectedBefore) : AloneOn(SelectedBefore[k].Id).err # NoErr}

\* the first of them
FirstFailing == CHOOSE k \in FailingPositions : \A j \in FailingPositions : k <= j

\* C19: when the mutation fails on a selected occurrence, the cascade returns
\* the error of the first failing occurrence, the occurrences before it keep
\* the mutation, and neither it nor any later occurrence is mutated.
C19_FailFastNoRollback ==
    (CascadedInvitation /\ FailingPositions # {}) =>
        /\ last.err = AloneOn(SelectedBefore[FirstFailing].Id).err
        /\ events = last.pre
        /\ \A k \in 1..Len(SelectedBefore) :
              InvitesOf(invites, SelectedBefore[k].Id) =
                  IF k < FirstFailing
                  THEN InvitesOf(AloneOn(SelectedBefore[k].Id).store.invites,
                                 SelectedBefore[k].Id)
                  ELSE InvitesOf(last.preInvites, SelectedBefore[k].Id)

\* a cascade failed after its first occurrence, and the store keeps what it
\* did to the occurrences before
C19_Witness ==
    /\ CascadedInvitation
    /\ FailingPositions # {}
    /\ FirstFailing > 1
    /\ FirstFailing < Len(SelectedBefore)
    /\ last.err # NoErr
    /\ invites # last.preInvites

(***************************************************************************)
(* Edits of an absent event, under Spec                                    *)
(***************************************************************************)
\* the last call was an edit with a scope, of an id with no event in the store
EditOfAbsent ==
    /\ last.op \in CascadedOps \cup {"AcceptInvitation", "DeclineInvitation",
                                     "RevokeInvitation", "InviteUser",
                                     "UpdateInvitationPermission"}
    /\ Get(StoreBefore, last.eventId) = <<>>

\* what an edit of an absent event comes to: scope All or ThisAndAfter fails
\* with ErrorEventNotFound and changes nothing, scope This on an event field
\* fails with ErrorEventNotFound
AbsentNotFound ==
    /\ last.editType \in {RepeatEditTypeAll, RepeatEditTypeThisAndAfter} =>
          /\ last.err = "ErrorEventNotFound"
          /\ events = last.pre
          /\ invites = last.preInvites
    /\ (last.editType = RepeatEditTypeThis /\ last.op \in CascadedOps) =>
          /\ last.err = "ErrorEventNotFound"
          /\ events = last.pre
          /\ invites = last.preInvites

\* the arguments of the last call pass the op's own validation, which comes
\* before the event is looked up: the time values of UpdateTime
ArgumentsValid ==
    last.op = "UpdateTime" => ValidateTimeValues(last.m.arg[1], last.m.arg[2]) = NoErr

\* C20 as stated: an edit with scope All or ThisAndAfter whose target id has
\* no event in the store fails with ErrorEventNotFound and changes no stored
\* event or invitation; with scope This on an event field the missing id
\* yields ErrorEventNotFound as well.
C20_AbsentTarget == EditOfAbsent => AbsentNotFound

\* C20, amended: the same, for the edits whose arguments pass the op's own
\* validation; UpdateTime with invalid time values returns the error of
\* ValidateTimeValues, whether the event exists or not.
C20_AbsentTargetValidArguments ==
    /\ (EditOfAbsent /\ ArgumentsValid) => AbsentNotFound
    /\ (EditOfAbsent /\ ~ArgumentsValid) =>
          /\ last.err = ValidateTimeValues(last.m.arg[1], last.m.arg[2])
          /\ events = last.pre
          /\ invites = last.preInvites

\* an invitation with scope ThisAndAfter of an id that no event of the
\* non-empty store has failed with ErrorEventNotFound
C20_Witness ==
    /\ EditOfAbsent
    /\ last.op = "InviteUser"
    /\ last.editType = RepeatEditTypeThisAndAfter
    /\ last.pre # <<>>
    /\ last.err = "ErrorEventNotFound"
    /\ invites = last.preInvites

(***************************************************************************)
(* Reschedules, invitations and queries on one series (specification       *)
(* SpecOrder)                                                              *)
(***************************************************************************)
\* the creates in a behaviour of SpecOrder
MaxOrderCreates == 1

\* the calls other than Create in a behaviour of SpecOrder
MaxOrderCalls == 3

\* the events handed to Calendar.Create: a daily series of three meetings
OrderTemplates ==
    {Repeating(Meeting, [ZeroRepeat EXCEPT !.RepeatType = RepeatTypeDaily,
                            !.RepeatOccurrences = 3])}

\* the days and times handed to UpdateDayTime: the afternoon of the day of the
\* third meeting, and the hour of the second meeting
OrderDayTimeArgs ==
    {[startDay |-> <<2008, 1, 3>>, startTime |-> <<13, 0>>, endDay |-> <<2008, 1, 3>>,
      endTime |-> <<14, 0>>, zone |-> "UTC", isAllDay |-> FALSE],
     [startDay |-> <<2008, 1, 2>>, startTime |-> <<8, 0>>, endDay |-> <<2008, 1, 2>>,
      endTime |-> <<9, 0>>, zone |-> "UTC", isAllDay |-> FALSE]}

\* the times handed to UpdateTime: an hour before the meetings
OrderTimeArgs == {<<<<7, 0>>, <<8, 0>>>>}

\* the edit scopes of SpecOrder
OrderEditTypes == {RepeatEditTypeThis, RepeatEditTypeAll, RepeatEditTypeThisAndAfter}

\* the queries handed to Calendar.Query: every event, the series, and the
\* events from the second day on
OrderQueries ==
    {ZeroQuery,
     [ZeroQuery EXCEPT !.ParentIds = <<1>>],
     [ZeroQuery EXCEPT !.Start = <<tt(<<2008, 1, 2>>, <<0, 0>>)>>]}

NextOrder ==
    \/ /\ nCreates < MaxOrderCreates
       /\ \E e \in OrderTemplates : Create(e)
    \/ /\ nEdits < MaxOrderCalls
       /\ \E eventId \in EventIdArgs, a \in OrderDayTimeArgs : UpdateDayTime(eventId, a)
    \/ /\ nEdits < MaxOrderCalls
       /\ \E eventId \in EventIdArgs, t \in OrderTimeArgs, editType \in OrderEditTypes :
             UpdateTime(eventId, t[1], t[2], editType)
    \/ /\ nEdits < MaxOrderCalls
       /\ \E eventId \in EventIdArgs, editType \in OrderEditTypes :
             InviteUser(eventId, 7, PermissionInvitee, editType)
    \/ /\ nEdits < MaxOrderCalls
       /\ \E eventId \in EventIdArgs, editType \in OrderEditTypes :
             AcceptInvitation(eventId, 7, editType)
    \/ /\ nEdits < MaxOrderCalls
       /\ \E q \in OrderQueries : CalQuery(q)

SpecOrder == Init /\ [][NextOrder]_vars

(***************************************************************************)
(* Properties of the order of events, under SpecOrder                      *)
(***************************************************************************)
\* event a starts before event b, by start date and then start time
StartsBefore(a, b) ==
    \/ StrLess(a.StartDay, b.StartDay)
    \/ a.StartDay = b.StartDay /\ StrLess(a.StartTime, b.StartTime)

\* the events are in non-decreasing order of start
Ascending(evs) ==
    \A i \in 1..Len(evs) : \A j \in (i + 1)..Len(evs) : ~StartsBefore(evs[j], evs[i])

\* C21: Calendar.Query returns its results in non-decreasing (start date,
\* start time) order, whatever order the store holds the events in after
\* creates and reschedules, and returns the events the store's query matched,
\* each once.
C21_QuerySorted ==
    last.op = "Query" =>
        /\ last.err = NoErr
        /\ Ascending(last.result)
        /\ Len(last.result) = Len(Query(TheStore, last.q))
        /\ Range(last.result) = Range(Query(TheStore, last.q))
        /\ Range(last.result) = {event \in Range(events) : Matches(last.q, event)}

\* a query returned three events in another order than the store's, which
\* holds them out of order after a reschedule
C21_Witness ==
    /\ last.op = "Query"
    /\ Len(last.result) = 3
    /\ ~Ascending(events)
    /\ last.result # Query(TheStore, last.q)
    /\ Ascending(last.result)

(***************************************************************************)
(* UpdateTime, under Spec                                                  *)
(***************************************************************************)
\* the event at position i of the store before the last call is one the scope
\* of the call selects: the target, its series, or the members of its series
\* that start at or after it
InScope(i) ==
    \E t \in TargetAt :
        CASE last.editType = RepeatEditTypeThis -> i = t
          [] last.editType = RepeatEditTypeAll ->
                IF last.pre[t].ParentId = <<>> THEN i = t
                ELSE last.pre[i].ParentId = last.pre[t].ParentId
          [] last.editType = RepeatEditTypeThisAndAfter ->
                IF last.pre[t].ParentId = <<>> THEN i = t
                ELSE /\ last.pre[i].ParentId = last.pre[t].ParentId
                     /\ StartsAtOrAfter(last.pre[i], last.pre[t])
          [] OTHER -> FALSE

\* C22: UpdateTime validates the two time-of-day values before any store
\* write: a malformed value or a start time after the end time returns the
\* validation error and no event changes. On success with edit scope S it
\* sets the start and end time-of-day of exactly the occurrences S selects
\* and leaves the start date and end date of every occurrence unchanged.
C22_UpdateTime ==
    last.op = "UpdateTime" =>
        /\ Len(events) = Len(last.pre)
        /\ ValidateTimeValues(last.m.arg[1], last.m.arg[2]) # NoErr =>
              /\ last.err = ValidateTimeValues(last.m.arg[1], last.m.arg[2])
              /\ events = last.pre
              /\ invites = last.preInvites
        /\ last.err = NoErr =>
              \A i \in 1..Len(last.pre) :
                  /\ events[i] = IF InScope(i)
                                 THEN [last.pre[i] EXCEPT !.StartTime = last.m.arg[1],
                                                          !.EndTime = last.m.arg[2]]
                                 ELSE last.pre[i]
                  /\ events[i].StartDay = last.pre[i].StartDay
                  /\ events[i].EndDay = last.pre[i].EndDay

(***************************************************************************)
(* The order of a cascade, under SpecOrder                                 *)
(***************************************************************************)
\* event a comes before event b in ascending (start date, start time) order,
\* ties broken by ascending identifier
Precedes(a, b) ==
    \/ StartsBefore(a, b)
    \/ ~StartsBefore(b, a) /\ a.Id < b.Id

\* the selected occurrences the mutation of the last call fails on
FailingOccurrences == {SelectedBefore[k] : k \in FailingPositions}

\* the first of them in ascending order
FirstFailingAscending ==
    CHOOSE f \in FailingOccurrences : \A g \in FailingOccurrences \ {f} : Precedes(f, g)

\* C23: with scope All or ThisAndAfter the mutation is applied in ascending
\* (start date, start time) order, ties broken by ascending identifier,
\* whatever order the store holds the occurrences in; so when the mutation
\* fails at some occurrence, the occurrences already mutated are exactly those
\* that precede it in that order.
C23_AscendingCascade ==
    (CascadedInvitation /\ FailingPositions # {}) =>
        \A k \in 1..Len(SelectedBefore) :
            InvitesOf(invites, SelectedBefore[k].Id) =
                IF Precedes(SelectedBefore[k], FirstFailingAscending)
                THEN InvitesOf(AloneOn(SelectedBefore[k].Id).store.invites,
                               SelectedBefore[k].Id)
                ELSE InvitesOf(last.preInvites, SelectedBefore[k].Id)

(***************************************************************************)
(* A series whose creation fails partway, under Spec                       *)
(***************************************************************************)
\* the positions of the generated occurrences that DataStore.Create rejects
RejectedIn(generated) == {k \in 1..Len(generated) : Validate(generated[k]) # NoErr}

\* the first of them
FirstRejectedIn(generated) ==
    CHOOSE k \in RejectedIn(generated) : \A j \in RejectedIn(generated) : k <= j

\* the days and times of an event
DaysAndTimes(e) == <<e.StartDay, e.StartTime, e.EndDay, e.EndTime>>

\* the last call was a Create of a valid repeating template whose generated
\* series holds an occurrence the store rejects
CreateRejected ==
    /\ last.op = "Create"
    /\ Validate(last.template) = NoErr
    /\ last.template.IsRepeating
    /\ GenerateRepeatEvents(last.template).err = NoErr
    /\ RejectedIn(GenerateRepeatEvents(last.template).events) # {}

\* C24: when DataStore.Create fails on the k-th occurrence (k > 1) of a
\* generated series, Calendar.Create returns that error with a nil event and
\* count 0, the k-1 occurrences persisted before it remain in the store, and
\* no later occurrence is persisted.
C24_CreateNotAtomic ==
    CreateRejected =>
        \A generated \in {GenerateRepeatEvents(last.template).events} :
            \A k \in {FirstRejectedIn(generated)} :
                /\ k > 1
                /\ last.err = Validate(generated[k])
                /\ last.event = <<>>
                /\ last.count = 0
                /\ Len(events) = Len(last.pre) + k - 1
                /\ SubSeq(events, 1, Len(last.pre)) = last.pre
                /\ \A j \in 1..(k - 1) :
                      DaysAndTimes(events[Len(last.pre) + j]) = DaysAndTimes(generated[j])
                /\ Len(invites) = Len(last.preInvites) + k - 1

\* a Create failed on an occurrence that is neither the first nor the last
\* of the generated series, in a store that already held events
C24_Witness ==
    /\ CreateRejected
    /\ FirstRejectedIn(GenerateRepeatEvents(last.template).events) > 1
    /\ FirstRejectedIn(GenerateRepeatEvents(last.template).events)
          < Len(GenerateRepeatEvents(last.template).events)
    /\ last.pre # <<>>
    /\ last.err # NoErr
    /\ Len(events) > Len(last.pre)

(***************************************************************************)
(* Termination of GenerateRepeatEvents, under SpecGen                      *)
(***************************************************************************)
\* C25: GenerateRepeatEvents returns, a sequence or an error, for every
\* repeating template that Validate accepts, in particular for every Weekly
\* template in count mode whatever non-zero value its day-of-week set holds:
\* no loop of it is still running after more passes than a loop that ends
\* can take.
C25_Terminates ==
    (pc = "done" /\ tmpl.IsRepeating /\ TmplValid) => genOut.err # "diverges"

(***************************************************************************)
(* The days of the generated occurrences, under SpecGen                    *)
(***************************************************************************)
\* C26: for every template that passes Validate, every occurrence that
\* GenerateRepeatEvents returns has its start date on or before its end date,
\* also in Monthly and Yearly series whose start or end day is a month end or
\* a leap day, where the calendar arithmetic normalizes the overflow.
C26_StartNotAfterEnd ==
    (GenSucceeded /\ TmplValid) =>
        \A i \in 1..Len(genOut.events) :
            ~StrLess(genOut.events[i].EndDay, genOut.events[i].StartDay)

(***************************************************************************)
(* The invitations of the store, under SpecInvite                          *)
(***************************************************************************)
\* C27: after any sequence of Calendar operations the store holds at most
\* one invitation per pair of event id and user id: inviting a user who is
\* already invited, or the owner, creates no second record.
C27_OneInvitePerPair ==
    \A i \in 1..Len(invites) : \A j \in (i + 1)..Len(invites) :
        ~(invites[i].EventId = invites[j].EventId /\ invites[i].UserId = invites[j].UserId)

\* C28: after any sequence of Calendar operations every invitation of the
\* store refers to an event of the store: InviteUser on an id that has no
\* event fails with ErrorEventNotFound and adds no invitation, under every
\* edit scope.
C28_InviteRefersToEvent ==
    /\ \A i \in 1..Len(invites) : \E k \in 1..Len(events) : events[k].Id = invites[i].EventId
    /\ (/\ last.op = "InviteUser"
        /\ last.editType \in {RepeatEditTypeThis, RepeatEditTypeAll, RepeatEditTypeThisAndAfter}
        /\ Get(StoreBefore, last.eventId) = <<>>) =>
            /\ last.err = "ErrorEventNotFound"
            /\ invites = last.preInvites

(***************************************************************************)
(* A Calendar over a DataStore whose Query can fail (specification         *)
(* SpecFailingQuery).  DataStore is an interface: Query returns a list and  *)
(* an error, and InMemoryDataStore is the implementation that never fails.  *)
(* queryErr is the error the store's Query returns during a call, NoErr    *)
(* when it succeeds; a Query that fails returns a nil list.                *)
(***************************************************************************)
\* the creates in a behaviour of SpecFailingQuery
MaxFailingCreates == 2

\* the edits in a behaviour of SpecFailingQuery
MaxFailingEdits == 1

\* the errors of the store's Query: none, and a failure of the store
QueryErrs == {NoErr, "ErrorStoreUnavailable"}

\* c.dataStore.Query(q): the list and the error
QueryResult(d, q, queryErr) ==
    IF queryErr # NoErr THEN [events |-> <<>>, err |-> queryErr]
    ELSE [events |-> Query(d, q), err |-> NoErr]

\* Calendar.getAllRepeatingEvents: the list and the error
getAllRepeatingEventsResult(d, e, queryErr) ==
    IF e.ParentId = <<>> THEN [events |-> <<e>>, err |-> NoErr]
    ELSE QueryResult(d, [ZeroQuery EXCEPT !.ParentIds = <<e.ParentId[1]>>], queryErr)

\* Calendar.getAllRepeatingEventsThisAndAfter: the list and the error
getAllRepeatingEventsThisAndAfterResult(d, e, queryErr) ==
    IF e.ParentId = <<>> THEN [events |-> <<e>>, err |-> NoErr]
    ELSE IF ~StartParses(e) THEN [events |-> <<>>, err |-> "parseDayTime"]
    ELSE QueryResult(d, [ZeroQuery EXCEPT
                            !.Start = <<parseDayTime(e.StartDay, e.StartTime)>>,
                            !.ParentIds = <<e.ParentId[1]>>], queryErr)

\* Calendar.applyEditBasedOnRepeatEditType over such a store: the error of
\* getAllRepeatingEvents is assigned and not looked at before the loop
applyEditOverStore(d, editType, eventId, m, queryErr) ==
    CASE editType = RepeatEditTypeThis -> Apply(d, m, eventId)
      [] editType = RepeatEditTypeAll ->
            IF Get(d, eventId) = <<>> THEN [store |-> d, err |-> "ErrorEventNotFound"]
            ELSE TheOne({ApplyEach(d, m, r.events, 1) :
                            r \in {getAllRepeatingEventsResult(d, Get(d, eventId)[1],
                                                               queryErr)}})
      [] editType = RepeatEditTypeThisAndAfter ->
            IF Get(d, eventId) = <<>> THEN [store |-> d, err |-> "ErrorEventNotFound"]
            ELSE TheOne({ApplyEach(d, m, r.events, 1) :
                            r \in {getAllRepeatingEventsThisAndAfterResult(
                                       d, Get(d, eventId)[1], queryErr)}})
      [] OTHER -> [store |-> d, err |-> "ErrorInvalidRepeatEditType"]

\* an edit through applyEditBasedOnRepeatEditType during which the store's
\* Query returns queryErr
CascadedOverStore(op, eventId, editType, m, queryErr) ==
    /\ \E r \in {applyEditOverStore(TheStore, editType, eventId, m, queryErr)} :
           /\ events' = r.store.events
           /\ invites' = r.store.invites
           /\ curId' = r.store.curId
           /\ last' = [NoCall EXCEPT !.op = op, !.eventId = eventId,
                                     !.editType = editType, !.m = m, !.err = r.err,
                                     !.pre = events, !.preInvites = invites,
                                     !.queryErr = queryErr]
    /\ nEdits' = nEdits + 1
    /\ UNCHANGED <<nCreates, genVars, fnVars>>

\* c.Cancel(eventId, editType)
CancelOverStore(eventId, editType, queryErr) ==
    CascadedOverStore("Cancel", eventId, editType,
                      [kind |-> "SetStatus", arg |-> StatusCanceled], queryErr)

\* c.UpdateTitle(eventId, title, editType)
UpdateTitleOverStore(eventId, title, editType, queryErr) ==
    CascadedOverStore("UpdateTitle", eventId, editType,
                      [kind |-> "SetTitle", arg |-> title], queryErr)

\* c.DeclineInvitation(eventId, userId, editType)
DeclineInvitationOverStore(eventId, userId, editType, queryErr) ==
    CascadedOverStore("DeclineInvitation", eventId, editType,
                      [kind |-> "SetInviteStatus",
                       arg |-> <<userId, InviteStatusDeclined>>], queryErr)

NextFailingQuery ==
    \/ /\ nCreates < MaxFailingCreates
       /\ \E e \in InviteTemplates : Create(e)
    \/ /\ nEdits < MaxFailingEdits
       /\ \E eventId \in EventIdArgs, editType \in EditTypes, queryErr \in QueryErrs :
             CancelOverStore(eventId, editType, queryErr)
    \/ /\ nEdits < MaxFailingEdits
       /\ \E eventId \in EventIdArgs, editType \in EditTypes, queryErr \in QueryErrs :
             UpdateTitleOverStore(eventId, "retro", editType, queryErr)
    \/ /\ nEdits < MaxFailingEdits
       /\ \E eventId \in EventIdArgs, editType \in EditTypes, queryErr \in QueryErrs :
             DeclineInvitationOverStore(eventId, 1, editType, queryErr)

SpecFailingQuery == Init /\ [][NextFailingQuery]_vars

(***************************************************************************)
(* Properties of an edit over a failing Query, under SpecFailingQuery      *)
(***************************************************************************)
\* the last call was an edit with scope All or ThisAndAfter that asked the
\* store for the members of the target's series, and the store's Query failed
ResolutionFailed ==
    /\ last.op \in {"Cancel", "UpdateTitle", "DeclineInvitation"}
    /\ last.editType \in {RepeatEditTypeAll, RepeatEditTypeThisAndAfter}
    /\ Get(StoreBefore, last.eventId) # <<>>
    /\ Get(StoreBefore, last.eventId)[1].ParentId # <<>>
    /\ last.queryErr # NoErr

\* C29: when the store's Query fails while a scope All or ThisAndAfter edit
\* resolves the members of the series, the edit returns that error and
\* applies the mutation to no occurrence; it never reports success for a
\* cascade that mutated nothing because the resolution failed.
C29_QueryErrorReturned ==
    ResolutionFailed =>
        /\ last.err = last.queryErr
        /\ events = last.pre
        /\ invites = last.preInvites

(***************************************************************************)
(* Two cascades at a time on one Calendar (specification SpecConcurrent).  *)
(* Cancel and Remove are called with scope All by two callers; every call  *)
(* of the DataStore is one step, and the steps of the two callers           *)
(* interleave.  procs holds the position of each caller in                 *)
(* applyEditBasedOnRepeatEditType and writes the calls of SetStatus in the  *)
(* order the store served them.                                            *)
(***************************************************************************)
\* the creates in a behaviour of SpecConcurrent
MaxConcurrentCreates == 1

\* the two callers, named by the op they call
Cascades == {"Cancel", "Remove"}

\* the status the op of the caller sets
StatusOf(p) == IF p = "Cancel" THEN StatusCanceled ELSE StatusRemoved

\* the function the op of the caller hands to applyEditBasedOnRepeatEditType
MutationOf(p) == [kind |-> "SetStatus", arg |-> StatusOf(p)]

\* a caller that has not called yet
Idle ==
    [pc |-> "idle", eventId |-> 0, e |-> <<>>, targets |-> <<>>, i |-> 0, err |-> NoErr]

InitConcurrent ==
    /\ events = NewStore.events
    /\ invites = NewStore.invites
    /\ curId = NewStore.curId
    /\ last = NoCall
    /\ nCreates = 0
    /\ nEdits = 0
    /\ tmpl = ZeroEvent
    /\ genOut = NoGen
    /\ pc = "calendar"
    /\ arg = <<>>
    /\ ret = <<>>
    /\ procs = [p \in Cascades |-> Idle]
    /\ writes = <<>>

\* c.Create(e), before the two callers call
CreateFirst(e) ==
    /\ \A p \in Cascades : procs[p].pc = "idle"
    /\ nCreates < MaxConcurrentCreates
    /\ nCreates < MaxCreates
    /\ \E r \in {CalendarCreate(TheStore, e)} :
           /\ events' = r.store.events
           /\ invites' = r.store.invites
           /\ curId' = r.store.curId
    /\ nCreates' = nCreates + 1
    /\ UNCHANGED <<last, nEdits, genVars, fnVars>>

\* the caller calls c.Cancel(eventId, RepeatEditTypeAll) or
\* c.Remove(eventId, RepeatEditTypeAll)
Begin(p, eventId) ==
    /\ procs[p].pc = "idle"
    /\ procs' = [procs EXCEPT ![p] = [Idle EXCEPT !.pc = "get", !.eventId = eventId]]
    /\ UNCHANGED <<storeVars, genVars, arg, ret, writes>>

\* e, err := c.Get(eventId); ErrorEventNotFound when there is none
FetchTarget(p) ==
    /\ procs[p].pc = "get"
    /\ procs' = [procs EXCEPT ![p] =
                    IF Get(TheStore, procs[p].eventId) = <<>>
                    THEN [@ EXCEPT !.pc = "done", !.err = "ErrorEventNotFound"]
                    ELSE [@ EXCEPT !.pc = "resolve", !.e = Get(TheStore, procs[p].eventId)]]
    /\ UNCHANGED <<storeVars, genVars, arg, ret, writes>>

\* events, err := c.getAllRepeatingEvents(*e): the ids the loop will range over
ResolveSeries(p) ==
    /\ procs[p].pc = "resolve"
    /\ \E found \in {getAllRepeatingEvents(TheStore, procs[p].e[1])} :
           procs' = [procs EXCEPT ![p] =
                        [@ EXCEPT !.pc = "apply", !.i = 1,
                                  !.targets = [k \in 1..Len(found) |-> found[k].Id]]]
    /\ UNCHANGED <<storeVars, genVars, arg, ret, writes>>

\* one pass of the loop: err = f(event.Id), and the return of the error
ApplyToNext(p) ==
    /\ procs[p].pc = "apply"
    /\ procs[p].i <= Len(procs[p].targets)
    /\ \E r \in {Apply(TheStore, MutationOf(p), procs[p].targets[procs[p].i])} :
           /\ events' = r.store.events
           /\ invites' = r.store.invites
           /\ curId' = r.store.curId
           /\ procs' = [procs EXCEPT ![p] =
                           IF r.err # NoErr THEN [@ EXCEPT !.pc = "done", !.err = r.err]
                           ELSE [@ EXCEPT !.i = @ + 1]]
           /\ writes' = IF r.err # NoErr THEN writes
                        ELSE Append(writes, [by |-> p,
                                             eventId |-> procs[p].targets[procs[p].i]])
    /\ UNCHANGED <<last, nCreates, nEdits, genVars, arg, ret>>

\* the end of the loop: return nil
Return(p) ==
    /\ procs[p].pc = "apply"
    /\ procs[p].i > Len(procs[p].targets)
    /\ procs' = [procs EXCEPT ![p] = [@ EXCEPT !.pc = "done", !.err = NoErr]]
    /\ UNCHANGED <<storeVars, genVars, arg, ret, writes>>

NextConcurrent ==
    \/ \E e \in OrderTemplates : CreateFirst(e)
    \/ \E p \in Cascades, eventId \in EventIdArgs : Begin(p, eventId)
    \/ \E p \in Cascades : FetchTarget(p)
    \/ \E p \in Cascades : ResolveSeries(p)
    \/ \E p \in Cascades : ApplyToNext(p)
    \/ \E p \in Cascades : Return(p)

SpecConcurrent == InitConcurrent /\ [][NextConcurrent]_vars

(***************************************************************************)
(* Properties of two cascades at a time, under SpecConcurrent              *)
(***************************************************************************)
\* both callers have returned from a cascade over the same series
BothCompleted ==
    /\ \A p \in Cascades : procs[p].pc = "done" /\ procs[p].e # <<>>
    /\ procs["Cancel"].e[1].ParentId = procs["Remove"].e[1].ParentId

\* the positions in the store of the occurrences of that series
SeriesAt ==
    {k \in 1..Len(events) :
        IF procs["Cancel"].e[1].ParentId = <<>> THEN events[k].Id = procs["Cancel"].eventId
        ELSE events[k].ParentId = procs["Cancel"].e[1].ParentId}

\* the caller whose SetStatus the store served last for the event
LastWriter(eventId) ==
    LET at == {n \in 1..Len(writes) : writes[n].eventId = eventId}
    IN  writes[CHOOSE n \in at : \A o \in at : o <= n].by

\* every write of caller p came before every write of caller q
WroteBefore(p, q) ==
    \A n, o \in 1..Len(writes) : (writes[n].by = p /\ writes[o].by = q) => n < o

\* C30 as stated: when two scope-All cascades with different mutations, run
\* at a time on the same series, have both completed, the state is that of
\* running them one after the other in some order: every occurrence of the
\* series carries the same final value.
C30_Serializable ==
    BothCompleted =>
        \A k \in SeriesAt, j \in SeriesAt : events[k].Status = events[j].Status

\* C30, amended: both cascades return nil and every occurrence carries the
\* value of the cascade whose write to it the store served last, so
\* occurrences of one series can end with different values; they all carry
\* the same value when the writes of one cascade all came before the writes
\* of the other.
C30_LastWriterPerOccurrence ==
    BothCompleted =>
        /\ \A p \in Cascades : procs[p].err = NoErr
        /\ \A k \in SeriesAt :
              /\ \E n \in 1..Len(writes) : writes[n].eventId = events[k].Id
              /\ events[k].Status = StatusOf(LastWriter(events[k].Id))
        /\ \A p \in Cascades :
              \A q \in Cascades \ {p} :
                  WroteBefore(p, q) => \A k \in SeriesAt : events[k].Status = StatusOf(q)

\* both cascades have completed on a series of three and left one occurrence
\* canceled and another removed
C30_Witness ==
    /\ BothCompleted
    /\ Cardinality(SeriesAt) = 3
    /\ \E k \in SeriesAt, j \in SeriesAt :
          events[k].Status = StatusCanceled /\ events[j].Status = StatusRemoved

====
